---- MODULE Spec2Model ----
(***************************************************************************)
(* A model of aumai-agentci: the simulated LLM provider (MockLLMProvider), *)
(* the test runner (AgentTestRunner.load_tests / run_test / run_suite),    *)
(* the exit status of the `test` command and the data model they work on.  *)
(*                                                                         *)
(* Representation choices                                                  *)
(*  - A float in [0,1] (failure_rate, a draw of random()) is an integer    *)
(*    number of hundredths: 1.0 is RateOne, and `draw < failure_rate` is   *)
(*    the comparison of the two integers (floor(100*draw) < r  <=>         *)
(*    draw < r/100 for an integer r).                                      *)
(*  - Latencies are whole milliseconds.                                    *)
(*  - A Python value of an expectation map is a tagged record (PyBool,     *)
(*    PyInt, PyStr, PyList, PyDict, PyNone), so that `is True`,            *)
(*    isinstance and int()/float() can be modelled by what they do.        *)
(***************************************************************************)
EXTENDS Integers, Sequences, FiniteSets, TLC

VARIABLES
    config,     \* the MockLLMConfig shared by every provider of the run
    prov,       \* provider id -> [index, call_count]: the MockLLMProvider objects
    calls,      \* history: provider id -> complete() invocations since construction/reset
    served,     \* history: provider id -> responses served from a non-empty list since then
    wasReset,   \* history: provider id -> reset() has been called on it
    last,       \* history: the last provider operation and what it returned or raised
    seen,       \* history: seed -> the (provider, outcome) pairs observed with that seed
    run,        \* the run_suite call: its directory, its AgentTestConfig, where it is
    cases,      \* test_cases: what load_tests returned
    units,      \* parallel mode: unit -> its future (pending, finished, yielded)
    results,    \* the results list run_suite is building
    suite,      \* the TestSuiteResult returned, once the run is done
    input_record, \* the mapping AgentTestCase is constructed from, when one case is followed
    checked     \* a call of _lightweight_schema_check: its arguments and what it returned

provider_vars == <<config, prov, calls, served, wasReset, last, seen>>
suite_vars == <<run, cases, units, results, suite, input_record, checked>>
vars == <<config, prov, calls, served, wasReset, last, seen,
          run, cases, units, results, suite, input_record, checked>>

----------------------------------------------------------------------------
(* Bounds of the model *)

\* complete() calls per provider between two resets
MaxCalls == 3
\* length of the configured response list
MaxResponses == 2
\* seeds passed to complete() are 0..MaxSeed
MaxSeed == 1
\* definition files in the test directory
MaxFiles == 2

\* levels of nested `properties` in a schema, and of nested objects in the data
MaxDepth == 3
\* elements of the list a generated definition file holds
MaxRecords == 2

----------------------------------------------------------------------------
(* models.py: the data model *)

\* failure_rate: Annotated[float, Field(ge=0.0, le=1.0)], in hundredths
RateOne == 100

\* the failure rates the configurations are drawn from: 0.0, 0.5, 1.0
Rates == {0, RateOne \div 2, RateOne}

\* MockLLMResponse(content, model, tokens_used, latency_ms, finish_reason)
MockLLMResponse(content, model, tokens_used, latency_ms, finish_reason) ==
    [content |-> content, model |-> model, tokens_used |-> tokens_used,
     latency_ms |-> latency_ms, finish_reason |-> finish_reason]

\* the responses the configured lists are built from
AllResponses ==
    << MockLLMResponse("Hello, world!", "mock-a", 12, 10, "stop"),
       MockLLMResponse("42", "mock-a", 120, 0, "stop"),
       MockLLMResponse("search(q)", "mock-b", 30, 80, "tool_calls"),
       MockLLMResponse("mail bob@example.com", "mock-b", 7, 50, "length") >>

\* the configured response lists: the contiguous runs of AllResponses of
\* length 0..MaxResponses
ResponseLists ==
    { SubSeq(AllResponses, w[1], w[1] + w[2] - 1) :
        w \in { v \in (1..Len(AllResponses)) \X (0..MaxResponses) :
                   v[1] + v[2] - 1 <= Len(AllResponses) } }

\* MockLLMConfig(model_name, responses, default_latency_ms, failure_rate)
MockLLMConfig(model_name, responses, default_latency_ms, failure_rate) ==
    [model_name |-> model_name, responses |-> responses,
     default_latency_ms |-> default_latency_ms, failure_rate |-> failure_rate]

\* the configurations of the model; model name and default latency only show
\* in the synthetic response of an empty list, so they vary there
Configs ==
    { MockLLMConfig("mock-model", rs, 50, fr) :
        rs \in ResponseLists \ {<< >>}, fr \in Rates } \cup
    { MockLLMConfig(m, << >>, l, fr) :
        m \in {"mock-model", "gpt-mock"}, l \in {0, 50}, fr \in Rates }

----------------------------------------------------------------------------
(* core.py: MockLLMProvider *)

Seeds == 0..MaxSeed

\* random.Random(seed).random() for seed = 0, 1, 2, ..., in hundredths
\* (CPython's generator: 0.8444, 0.1343, 0.9560, 0.2379, 0.2360, 0.6229, ...)
SeededDrawTable == <<84, 13, 95, 23, 23, 62, 79, 32>>

\* a generator that is not local to the call: the draw moves with the calls made
SeededDraw_shared(seed) ==
    LET made == calls["a"] + (IF "b" \in DOMAIN calls THEN calls["b"] ELSE 0)
    IN  SeededDrawTable[((seed + made) % Len(SeededDrawTable)) + 1]

SeededDraw(seed) == SeededDrawTable[seed + 1]

\* random.Random().random(): any value in [0,1); the values on either side
\* of each configured failure rate stand for the rest
UnseededDraws ==
    { d \in 0..(RateOne - 1) : \E r \in Rates : d \in {r - 1, r} } \cup {0}

\* `rng = random.Random(seed) if seed is not None else random.Random()`
\* followed by rng.random(): the values the draw can take
Draws(seeded, seed) == IF seeded THEN {SeededDraw(seed)} ELSE UnseededDraws

\* MockLLMProvider.__init__
MockLLMProvider(cfg) == [index |-> 0, call_count |-> 0]

\* what complete() hands back when it raises instead of returning
NoResponse == MockLLMResponse("<raised>", "<raised>", 0, 0, "<raised>")

\* the RuntimeError of complete() carries the failure rate and the call number
NoError == [failure_rate |-> 0, call |-> 0]

ShouldFail_le(cfg, draw) == cfg.failure_rate > 0 /\ draw <= cfg.failure_rate

\* `self._config.failure_rate > 0.0 and rng.random() < self._config.failure_rate`
ShouldFail(cfg, draw) == cfg.failure_rate > 0 /\ draw < cfg.failure_rate

NextResponse_off_by_one(cfg, st) ==
    cfg.responses[((st.index + 1) % Len(cfg.responses)) + 1]

\* `self._config.responses[self._index % len(self._config.responses)]`
NextResponse(cfg, st) == cfg.responses[(st.index % Len(cfg.responses)) + 1]

SyntheticResponse_no_latency(cfg) ==
    MockLLMResponse("", cfg.model_name, 0, 0, "stop")

\* the response synthesised for an empty response list
SyntheticResponse(cfg) ==
    MockLLMResponse("", cfg.model_name, 0, cfg.default_latency_ms, "stop")

\* counts the call only once it is known not to fail
complete_count_late(cfg, st, draw) ==
    IF ShouldFail(cfg, draw)
    THEN [st |-> st, raised |-> TRUE,
          error |-> [failure_rate |-> cfg.failure_rate, call |-> st.call_count],
          response |-> NoResponse]
    ELSE IF cfg.responses = << >>
    THEN [st |-> [st EXCEPT !.call_count = @ + 1], raised |-> FALSE,
          error |-> NoError, response |-> SyntheticResponse(cfg)]
    ELSE [st |-> [st EXCEPT !.call_count = @ + 1, !.index = @ + 1],
          raised |-> FALSE, error |-> NoError, response |-> NextResponse(cfg, st)]

\* a call that raises moves the cursor as well
complete_failure_advances(cfg, st, draw) ==
    LET counted == [st EXCEPT !.call_count = @ + 1] IN
    IF ShouldFail(cfg, draw)
    THEN [st |-> [counted EXCEPT !.index = @ + 1], raised |-> TRUE,
          error |-> [failure_rate |-> cfg.failure_rate, call |-> counted.call_count],
          response |-> NoResponse]
    ELSE IF cfg.responses = << >>
    THEN [st |-> counted, raised |-> FALSE, error |-> NoError,
          response |-> SyntheticResponse(cfg)]
    ELSE [st |-> [counted EXCEPT !.index = @ + 1], raised |-> FALSE,
          error |-> NoError, response |-> NextResponse(cfg, st)]

\* MockLLMProvider.complete, given the value drawn from the generator:
\* the provider's new state and what the call returned or raised
complete(cfg, st, draw) ==
    LET counted == [st EXCEPT !.call_count = @ + 1] IN
    IF ShouldFail(cfg, draw)
    THEN [st |-> counted, raised |-> TRUE,
          error |-> [failure_rate |-> cfg.failure_rate, call |-> counted.call_count],
          response |-> NoResponse]
    ELSE IF cfg.responses = << >>
    THEN [st |-> counted, raised |-> FALSE, error |-> NoError,
          response |-> SyntheticResponse(cfg)]
    ELSE [st |-> [counted EXCEPT !.index = @ + 1], raised |-> FALSE,
          error |-> NoError, response |-> NextResponse(cfg, st)]

\* MockLLMProvider.call_count
call_count(st) == st.call_count

reset_keeps_index(st) == [st EXCEPT !.call_count = 0]

\* MockLLMProvider.reset
reset(st) == [st EXCEPT !.index = 0, !.call_count = 0]

----------------------------------------------------------------------------
(* Python values of an expectation map, as YAML yields them *)

PyVal(ty, b, n, text, l) == [ty |-> ty, b |-> b, n |-> n, s |-> text, l |-> l]
PyNone == PyVal("none", FALSE, 0, "", << >>)
PyBool(b) == PyVal("bool", b, 0, "", << >>)
PyInt(n) == PyVal("int", FALSE, n, "", << >>)
PyStr(text) == PyVal("str", FALSE, 0, text, << >>)
\* a list of strings
PyList(l) == PyVal("list", FALSE, 0, "", l)
\* the mapping {"type": t}, a JSON schema
PyDict(t) == PyVal("dict", FALSE, 0, t, << >>)

\* the decimal strings the model converts, with their values
NumeralValue == ("0" :> 0) @@ ("1" :> 1) @@ ("50" :> 50) @@ ("100" :> 100)

\* str(v)
str(v) ==
    CASE v.ty = "str" -> v.s
      [] v.ty = "bool" -> IF v.b THEN "True" ELSE "False"
      [] v.ty = "none" -> "None"
      [] v.ty = "int" /\ \E d \in DOMAIN NumeralValue : NumeralValue[d] = v.n
            -> CHOOSE d \in DOMAIN NumeralValue : NumeralValue[d] = v.n
      [] OTHER -> "<repr>"

\* int(v) and float(v): the number, or the exception raised. The numbers of
\* the model are integers, on which the two agree.
int(v) ==
    CASE v.ty = "int" -> [raised |-> FALSE, exc |-> "", v |-> v.n]
      [] v.ty = "bool" -> [raised |-> FALSE, exc |-> "", v |-> IF v.b THEN 1 ELSE 0]
      [] v.ty = "str" /\ v.s \in DOMAIN NumeralValue
            -> [raised |-> FALSE, exc |-> "", v |-> NumeralValue[v.s]]
      [] v.ty = "str" -> [raised |-> TRUE, exc |-> "ValueError", v |-> 0]
      [] OTHER -> [raised |-> TRUE, exc |-> "TypeError", v |-> 0]

float(v) == int(v)

----------------------------------------------------------------------------
(* assertions.py: the predicates. The text predicates are regular          *)
(* expressions and JSON parsing over the output; they are given here by    *)
(* their values on the outputs and parameters of the model, the contents   *)
(* of AllResponses and the empty string of the synthetic response.         *)

\* expected.lower() in output.lower()
assert_contains_text(output, expected) ==
    \/ expected = ""
    \/ <<output, expected>> \in
         { <<"Hello, world!", "hello">>, <<"Hello, world!", "Hello, world!">>,
           <<"42", "42">>, <<"search(q)", "search">>, <<"search(q)", "search(q)">>,
           <<"mail bob@example.com", "mail bob@example.com">> }

\* JSON tool fields first, then the textual patterns
assert_calls_tool(output, tool_name) ==
    <<output, tool_name>> \in { <<"search(q)", "search">> }

\* no e-mail address, phone number, SSN or card number matches
assert_no_pii(output) == output # "mail bob@example.com"

\* tokens <= max_tokens
assert_max_tokens(tokens, max_tokens) == tokens <= max_tokens

\* latency_ms <= max_ms
assert_max_latency(latency_ms, max_ms) == latency_ms <= max_ms

\* json.loads(output.strip()) succeeds
assert_valid_json(output) == output \in {"42"}

\* the output parses as JSON and conforms to the schema {"type": t}, for t
\* one of integer, number, string (jsonschema and the fallback check agree)
assert_matches_schema(output, schema) ==
    <<output, schema.s>> \in { <<"42", "integer">>, <<"42", "number">> }

----------------------------------------------------------------------------
(* assertions.py: _lightweight_schema_check, on parsed JSON *)

\* a parsed JSON value: its Python type and, for a dict, its items
Json(ty, fields) == [ty |-> ty, fields |-> fields]

NoFields == [k \in {} |-> 0]

\* a schema: its `type` (if any), its `required` keys, its `properties` and
\* whether it has an `items` schema
Schema(has_type, type, required, properties, has_items) ==
    [has_type |-> has_type, type |-> type, required |-> required,
     properties |-> properties, has_items |-> has_items]

\* type_map: the Python type of each JSON Schema type name
type_map ==
    ("object" :> "dict") @@ ("array" :> "list") @@ ("string" :> "str")
    @@ ("number" :> "float") @@ ("integer" :> "int") @@ ("boolean" :> "bool")
    @@ ("null" :> "none")

\* isinstance(data, python_type): bool is a subclass of int
isinstance(data, python_type) ==
    \/ data.ty = python_type
    \/ python_type = "int" /\ data.ty = "bool"

RECURSIVE lightweight_schema_check(_, _)
\* _lightweight_schema_check(data, schema)
lightweight_schema_check(data, schema) ==
    IF /\ schema.has_type
       /\ schema.type \in DOMAIN type_map
       /\ ~isinstance(data, type_map[schema.type])
       /\ ~(schema.type = "number" /\ isinstance(data, "int"))
    THEN FALSE
    ELSE IF data.ty # "dict" THEN TRUE
    ELSE IF \E key \in schema.required : key \notin DOMAIN data.fields THEN FALSE
    ELSE \A prop_name \in DOMAIN schema.properties :
            prop_name \in DOMAIN data.fields
            => lightweight_schema_check(data.fields[prop_name],
                                        schema.properties[prop_name])

\* no call of _lightweight_schema_check is followed
NoCheck ==
    [pc |-> "none", data |-> Json("none", NoFields),
     schema |-> Schema(FALSE, "", {}, NoFields, FALSE), verdict |-> FALSE]

----------------------------------------------------------------------------
(* models.py: AgentTestCase, AgentTestResult, TestSuiteResult *)

\* allowed_keys of AgentTestCase.validate_expected_behavior
allowed_keys ==
    {"contains_text", "calls_tools", "max_tokens", "max_latency_ms",
     "no_pii", "valid_json", "matches_schema"}

\* an expectation map: a function from the keys present to their values
NoBehavior == [k \in {} |-> PyNone]

AgentTestCase(name, expected_behavior) ==
    [name |-> name, expected_behavior |-> expected_behavior]

\* an entry of assertions_passed or assertions_failed: which expectation,
\* which of its two messages (ok: the passed one), and the values in it
Entry(label, ok, arg, n, m) ==
    [label |-> label, ok |-> ok, arg |-> arg, n |-> n, m |-> m]

\* actual_output: the response's content, or f"ERROR: {error_msg}"
ContentOutput(content) == [error |-> FALSE, text |-> content, failure_rate |-> 0, call |-> 0]
ErrorOutput(err) ==
    [error |-> TRUE, text |-> "ERROR: Simulated LLM API failure",
     failure_rate |-> err.failure_rate, call |-> err.call]

\* AgentTestResult without its duration, which the model does not keep
AgentTestResult(name, passed, actual_output, passed_list, failed_list, tokens) ==
    [test_case_name |-> name, passed |-> passed,
     actual_output |-> actual_output, assertions_passed |-> passed_list,
     assertions_failed |-> failed_list, tokens_used |-> tokens]

NoResult == AgentTestResult("<raised>", FALSE, ContentOutput(""), << >>, << >>, 0)

\* TestSuiteResult without its name and duration
TestSuiteResult(rs, total, passed, failed) ==
    [results |-> rs, total |-> total, passed |-> passed, failed |-> failed]

\* `mock_config: MockLLMConfig | None = None`: the None
NoConfig == MockLLMConfig("<none>", << >>, 0, 0)

\* no run_suite call is made in the provider-level specifications
NoRun == [exists |-> FALSE, files |-> << >>, has_mock |-> FALSE,
          mock_config |-> NoConfig, mock_error |-> FALSE,
          parallel |-> FALSE, pc |-> "none", error |-> "", file |-> "",
          output_format |-> "", exit |-> 0 - 1]

NoSuite == TestSuiteResult(<< >>, 0 - 1, 0 - 1, 0 - 1)

\* no provider operation has been recorded
NoLast ==
    [op |-> "none", p |-> "a", seeded |-> FALSE, seed |-> 0, draw |-> 0,
     raised |-> FALSE, error |-> NoError, response |-> NoResponse]

----------------------------------------------------------------------------
(* core.py: AgentTestRunner.run_test *)

Has(behavior, key) == key \in DOMAIN behavior

\* any truthy value counts, not the value True alone
IsTrue_truthy(behavior, key) ==
    /\ Has(behavior, key)
    /\ \/ behavior[key].ty = "bool" /\ behavior[key].b
       \/ behavior[key].ty = "int" /\ behavior[key].n # 0
       \/ behavior[key].ty = "str" /\ behavior[key].s # ""

\* behavior.get(key) is True
IsTrue(behavior, key) ==
    Has(behavior, key) /\ behavior[key].ty = "bool" /\ behavior[key].b

\* the entries of `if "contains_text" in behavior`
contains_text_entries(behavior, actual_output) ==
    IF Has(behavior, "contains_text")
    THEN LET expected_text == str(behavior["contains_text"]) IN
         << Entry("contains_text", assert_contains_text(actual_output, expected_text),
                  expected_text, 0, 0) >>
    ELSE << >>

\* a list stands for its first name only
tool_names_first_only(tools_value) ==
    CASE tools_value.ty = "str" -> << tools_value.s >>
      [] tools_value.ty = "list" ->
            IF tools_value.l = << >> THEN << >> ELSE << Head(tools_value.l) >>
      [] OTHER -> << str(tools_value) >>

\* tool_names of `if "calls_tools" in behavior`
tool_names(tools_value) ==
    CASE tools_value.ty = "str" -> << tools_value.s >>
      [] tools_value.ty = "list" -> tools_value.l
      [] OTHER -> << str(tools_value) >>

\* the entries of `if "calls_tools" in behavior`: one per tool name
calls_tools_entries(behavior, actual_output) ==
    IF Has(behavior, "calls_tools")
    THEN LET names == tool_names(behavior["calls_tools"]) IN
         [i \in 1..Len(names) |->
            Entry("calls_tool", assert_calls_tool(actual_output, names[i]),
                  names[i], 0, 0)]
    ELSE << >>

\* the entries of `if "max_tokens" in behavior`, once int() has succeeded
max_tokens_entries(behavior, tokens_used) ==
    IF Has(behavior, "max_tokens")
    THEN LET max_tok == int(behavior["max_tokens"]).v IN
         << Entry("max_tokens", assert_max_tokens(tokens_used, max_tok),
                  "", tokens_used, max_tok) >>
    ELSE << >>

\* the entries of `if "max_latency_ms" in behavior`, once float() has succeeded
max_latency_entries(behavior, latency_ms, elapsed_ms) ==
    IF Has(behavior, "max_latency_ms")
    THEN LET max_lat == float(behavior["max_latency_ms"]).v
             measured == IF latency_ms > 0 THEN latency_ms ELSE elapsed_ms
         IN  << Entry("max_latency_ms", assert_max_latency(measured, max_lat),
                      "", measured, max_lat) >>
    ELSE << >>

\* an absent no_pii counts as True
no_pii_entries_default(behavior, actual_output) ==
    IF ~Has(behavior, "no_pii") \/ IsTrue(behavior, "no_pii")
    THEN << Entry("no_pii", assert_no_pii(actual_output), "", 0, 0) >>
    ELSE << >>

\* the entries of `if behavior.get("no_pii") is True`
no_pii_entries(behavior, actual_output) ==
    IF IsTrue(behavior, "no_pii")
    THEN << Entry("no_pii", assert_no_pii(actual_output), "", 0, 0) >>
    ELSE << >>

\* the entries of `if behavior.get("valid_json") is True`
valid_json_entries(behavior, actual_output) ==
    IF IsTrue(behavior, "valid_json")
    THEN << Entry("valid_json", assert_valid_json(actual_output), "", 0, 0) >>
    ELSE << >>

\* a string is taken as the name of the type
matches_schema_entries_coerce(behavior, actual_output) ==
    IF Has(behavior, "matches_schema") /\ behavior["matches_schema"].ty \in {"dict", "str"}
    THEN << Entry("matches_schema",
                  assert_matches_schema(actual_output, behavior["matches_schema"]),
                  "", 0, 0) >>
    ELSE << >>

\* the entries of `if "matches_schema" in behavior`
matches_schema_entries(behavior, actual_output) ==
    IF Has(behavior, "matches_schema") /\ behavior["matches_schema"].ty = "dict"
    THEN << Entry("matches_schema",
                  assert_matches_schema(actual_output, behavior["matches_schema"]),
                  "", 0, 0) >>
    ELSE << >>

\* the schema is checked first, and the tool names from the last to the first
evaluate_assertions_schema_first(test_case, actual_output, tokens_used, latency_ms, elapsed_ms) ==
    LET behavior == test_case.expected_behavior
        tok == IF Has(behavior, "max_tokens") THEN int(behavior["max_tokens"])
               ELSE [raised |-> FALSE, exc |-> "", v |-> 0]
        lat == IF Has(behavior, "max_latency_ms") THEN float(behavior["max_latency_ms"])
               ELSE [raised |-> FALSE, exc |-> "", v |-> 0]
        tools == calls_tools_entries(behavior, actual_output)
    IN  IF tok.raised \/ lat.raised
        THEN [raised |-> TRUE, exc |-> IF tok.raised THEN tok.exc ELSE lat.exc,
              assertions_passed |-> << >>, assertions_failed |-> << >>]
        ELSE LET entries ==
                    matches_schema_entries(behavior, actual_output)
                    \o contains_text_entries(behavior, actual_output)
                    \o [i \in 1..Len(tools) |-> tools[Len(tools) + 1 - i]]
                    \o max_tokens_entries(behavior, tokens_used)
                    \o max_latency_entries(behavior, latency_ms, elapsed_ms)
                    \o no_pii_entries(behavior, actual_output)
                    \o valid_json_entries(behavior, actual_output)
                 IsOk(e) == e.ok
                 IsNotOk(e) == ~e.ok
             IN  [raised |-> FALSE, exc |-> "",
                  assertions_passed |-> SelectSeq(entries, IsOk),
                  assertions_failed |-> SelectSeq(entries, IsNotOk)]

\* AgentTestRunner._evaluate_assertions: the exception a conversion raises,
\* or the entries appended to assertions_passed and assertions_failed
evaluate_assertions(test_case, actual_output, tokens_used, latency_ms, elapsed_ms) ==
    LET behavior == test_case.expected_behavior
        tok == IF Has(behavior, "max_tokens") THEN int(behavior["max_tokens"])
               ELSE [raised |-> FALSE, exc |-> "", v |-> 0]
        lat == IF Has(behavior, "max_latency_ms") THEN float(behavior["max_latency_ms"])
               ELSE [raised |-> FALSE, exc |-> "", v |-> 0]
    IN  IF tok.raised \/ lat.raised
        THEN [raised |-> TRUE, exc |-> IF tok.raised THEN tok.exc ELSE lat.exc,
              assertions_passed |-> << >>, assertions_failed |-> << >>]
        ELSE LET entries ==
                    contains_text_entries(behavior, actual_output)
                    \o calls_tools_entries(behavior, actual_output)
                    \o max_tokens_entries(behavior, tokens_used)
                    \o max_latency_entries(behavior, latency_ms, elapsed_ms)
                    \o no_pii_entries(behavior, actual_output)
                    \o valid_json_entries(behavior, actual_output)
                    \o matches_schema_entries(behavior, actual_output)
                 IsOk(e) == e.ok
                 IsNotOk(e) == ~e.ok
             IN  [raised |-> FALSE, exc |-> "",
                  assertions_passed |-> SelectSeq(entries, IsOk),
                  assertions_failed |-> SelectSeq(entries, IsNotOk)]

passed_flag_tolerant(assertions_failed) == Len(assertions_failed) <= 1

\* `passed=len(assertions_failed) == 0`
passed_flag(assertions_failed) == Len(assertions_failed) = 0

\* the expectations are evaluated on the error marker as well
run_test_eval_on_error(test_case, cfg, st, draw, elapsed_ms) ==
    LET r == complete(cfg, st, draw)
        out == IF r.raised THEN "ERROR" ELSE r.response.content
        ev == evaluate_assertions(test_case, out, r.response.tokens_used,
                                  r.response.latency_ms, elapsed_ms)
        failed == (IF r.raised
                   THEN << Entry("provider_error", FALSE, "",
                                 r.error.failure_rate, r.error.call) >>
                   ELSE << >>) \o ev.assertions_failed
    IN IF ev.raised
       THEN [st |-> r.st, raised |-> TRUE, exc |-> ev.exc, result |-> NoResult]
       ELSE [st |-> r.st, raised |-> FALSE, exc |-> "",
             result |-> AgentTestResult(test_case.name, passed_flag(failed),
                          IF r.raised THEN ErrorOutput(r.error)
                          ELSE ContentOutput(r.response.content),
                          ev.assertions_passed, failed, r.response.tokens_used)]

\* the provider's RuntimeError is not caught
run_test_propagates(test_case, cfg, st, draw, elapsed_ms) ==
    LET r == complete(cfg, st, draw) IN
    IF r.raised
    THEN [st |-> r.st, raised |-> TRUE, exc |-> "RuntimeError", result |-> NoResult]
    ELSE LET ev == evaluate_assertions(test_case, r.response.content,
                                       r.response.tokens_used,
                                       r.response.latency_ms, elapsed_ms)
         IN IF ev.raised
            THEN [st |-> r.st, raised |-> TRUE, exc |-> ev.exc, result |-> NoResult]
            ELSE [st |-> r.st, raised |-> FALSE, exc |-> "",
                  result |-> AgentTestResult(test_case.name,
                                             passed_flag(ev.assertions_failed),
                                             ContentOutput(r.response.content),
                                             ev.assertions_passed,
                                             ev.assertions_failed,
                                             r.response.tokens_used)]

\* AgentTestRunner.run_test on a provider in state st, given the value the
\* provider draws and the wall-clock time the call takes: the provider's new
\* state, and the AgentTestResult or the exception that escapes
run_test(test_case, cfg, st, draw, elapsed_ms) ==
    LET r == complete(cfg, st, draw) IN
    IF r.raised
    THEN LET failed == << Entry("provider_error", FALSE, "",
                                r.error.failure_rate, r.error.call) >>
         IN [st |-> r.st, raised |-> FALSE, exc |-> "",
             result |-> AgentTestResult(test_case.name, passed_flag(failed),
                                        ErrorOutput(r.error), << >>, failed, 0)]
    ELSE LET ev == evaluate_assertions(test_case, r.response.content,
                                       r.response.tokens_used,
                                       r.response.latency_ms, elapsed_ms)
         IN IF ev.raised
            THEN [st |-> r.st, raised |-> TRUE, exc |-> ev.exc, result |-> NoResult]
            ELSE [st |-> r.st, raised |-> FALSE, exc |-> "",
                  result |-> AgentTestResult(test_case.name,
                                             passed_flag(ev.assertions_failed),
                                             ContentOutput(r.response.content),
                                             ev.assertions_passed,
                                             ev.assertions_failed,
                                             r.response.tokens_used)]

----------------------------------------------------------------------------
(* core.py: AgentTestRunner.load_tests *)

\* an element of a YAML list, or a YAML mapping: whether it is a mapping,
\* and for a mapping its `name` (if any) and its `expected_behavior`
RawRecord(isdict, has_name, name, behavior) ==
    [isdict |-> isdict, has_name |-> has_name, name |-> name,
     expected_behavior |-> behavior]

\* no record is followed on its own in the suite and provider specifications
NoRecord == RawRecord(FALSE, FALSE, "<none>", NoBehavior)

\* what yaml.safe_load does with a file: it raises on text that is not YAML
\* ("invalid"), or returns None ("null"), a list, a mapping ("dict": with a
\* `tests` key holding a list, or a record of its own) or anything else
\* ("scalar")
YamlFile(path, shape, tests_list, items) ==
    [path |-> path, shape |-> shape, tests_list |-> tests_list, items |-> items]

rec_greets == RawRecord(TRUE, TRUE, "greets", "contains_text" :> PyStr("hello"))
rec_full ==
    RawRecord(TRUE, TRUE, "full",
        ("contains_text" :> PyStr("hello"))
        @@ ("calls_tools" :> PyList(<<"search", "lookup">>))
        @@ ("max_tokens" :> PyInt(100))
        @@ ("max_latency_ms" :> PyInt(50))
        @@ ("no_pii" :> PyBool(TRUE))
        @@ ("valid_json" :> PyBool(TRUE))
        @@ ("matches_schema" :> PyDict("integer")))
rec_skips ==
    RawRecord(TRUE, TRUE, "skips",
        ("calls_tools" :> PyList(<< >>))
        @@ ("no_pii" :> PyBool(FALSE))
        @@ ("valid_json" :> PyStr("yes"))
        @@ ("matches_schema" :> PyStr("integer")))
rec_empty == RawRecord(TRUE, TRUE, "empty", NoBehavior)
rec_tool ==
    RawRecord(TRUE, TRUE, "tool",
        ("calls_tools" :> PyStr("search")) @@ ("max_tokens" :> PyStr("50")))
rec_bad_budget == RawRecord(TRUE, TRUE, "bad_budget", "max_tokens" :> PyStr("abc"))
rec_unknown_key == RawRecord(TRUE, TRUE, "unknown_key", "bogus" :> PyInt(1))
rec_no_name == RawRecord(TRUE, FALSE, "", NoBehavior)
not_a_mapping == RawRecord(FALSE, FALSE, "", NoBehavior)

\* the definition files of the model, in the order of their paths
FilePool ==
    << YamlFile("a_single.yaml", "dict", FALSE, <<rec_greets>>),
       YamlFile("b_list.yaml", "list", FALSE, <<rec_full, not_a_mapping, rec_skips>>),
       YamlFile("c_empty.yaml", "null", FALSE, << >>),
       YamlFile("d_tests.yml", "dict", TRUE, <<rec_empty, rec_tool>>),
       YamlFile("e_budget.yaml", "dict", FALSE, <<rec_bad_budget>>),
       YamlFile("f_unknown.yaml", "list", FALSE, <<rec_greets, rec_unknown_key>>),
       YamlFile("g_scalar.yaml", "scalar", FALSE, << >>),
       YamlFile("h_noname.yaml", "dict", FALSE, <<rec_no_name>>),
       YamlFile("i_broken.yaml", "invalid", FALSE, << >>) >>

\* the sorted file lists a test directory can hold: the contiguous runs of
\* FilePool of length 0..MaxFiles
FileLists ==
    { SubSeq(FilePool, w[1], w[1] + w[2] - 1) :
        w \in { v \in (1..Len(FilePool)) \X (0..MaxFiles) :
                   v[1] + v[2] - 1 <= Len(FilePool) } }

\* the keys of the expectation map are not checked
model_validate_open(record) ==
    IF ~record.has_name
    THEN [raised |-> TRUE, case |-> AgentTestCase("", NoBehavior)]
    ELSE [raised |-> FALSE,
          case |-> AgentTestCase(record.name, record.expected_behavior)]

\* AgentTestCase.model_validate(record): the record needs a name, and
\* validate_expected_behavior rejects the keys outside allowed_keys
model_validate(record) ==
    LET unknown == DOMAIN record.expected_behavior \ allowed_keys IN
    IF ~record.has_name \/ unknown # {}
    THEN [raised |-> TRUE, case |-> AgentTestCase("", NoBehavior)]
    ELSE [raised |-> FALSE,
          case |-> AgentTestCase(record.name, record.expected_behavior)]

\* the elements that are not mappings are kept
only_dicts_keep_all(items) == items

\* `[r for r in raw if isinstance(r, dict)]`
only_dicts(items) == LET IsDict(r) == r.isdict IN SelectSeq(items, IsDict)

\* a mapping is one record whether or not it has a `tests` list, and a null
\* document is a shape that is not accepted
load_yaml_file_one_shape(file) ==
    IF file.shape = "invalid"
    THEN [raised |-> TRUE, exc |-> "YAMLError", cases |-> << >>]
    ELSE IF file.shape \notin {"list", "dict"}
    THEN [raised |-> TRUE, exc |-> "ValueError", cases |-> << >>]
    ELSE LET records ==
                IF file.shape = "list" THEN only_dicts(file.items)
                ELSE IF file.tests_list
                THEN << RawRecord(TRUE, FALSE, "", NoBehavior) >>
                ELSE file.items
         IN IF \E i \in 1..Len(records) : model_validate(records[i]).raised
            THEN [raised |-> TRUE, exc |-> "ValueError", cases |-> << >>]
            ELSE [raised |-> FALSE, exc |-> "",
                  cases |-> [i \in 1..Len(records) |-> model_validate(records[i]).case]]

\* AgentTestRunner._load_yaml_file: the cases of a file, or the exception
\* raised: yaml.safe_load's YAMLError, or the ValueError of a shape or a
\* record that is not accepted
load_yaml_file(file) ==
    IF file.shape = "invalid"
    THEN [raised |-> TRUE, exc |-> "YAMLError", cases |-> << >>]
    ELSE IF file.shape = "null" THEN [raised |-> FALSE, exc |-> "", cases |-> << >>]
    ELSE IF file.shape \notin {"list", "dict"}
    THEN [raised |-> TRUE, exc |-> "ValueError", cases |-> << >>]
    ELSE LET records ==
                IF file.shape = "list" THEN only_dicts(file.items)
                ELSE IF file.tests_list THEN only_dicts(file.items)
                ELSE file.items
         IN IF \E i \in 1..Len(records) : model_validate(records[i]).raised
            THEN [raised |-> TRUE, exc |-> "ValueError", cases |-> << >>]
            ELSE [raised |-> FALSE, exc |-> "",
                  cases |-> [i \in 1..Len(records) |-> model_validate(records[i]).case]]

RECURSIVE extend_all(_)
\* `for yaml_path in yaml_files: test_cases.extend(self._load_yaml_file(yaml_path))`
extend_all(files) ==
    IF files = << >> THEN << >>
    ELSE load_yaml_file(Head(files)).cases \o extend_all(Tail(files))

RECURSIVE extend_loadable(_)
extend_loadable(files) ==
    IF files = << >> THEN << >>
    ELSE (IF load_yaml_file(Head(files)).raised THEN << >>
          ELSE load_yaml_file(Head(files)).cases)
         \o extend_loadable(Tail(files))

\* a file that cannot be loaded is skipped, the cases of the others returned
load_tests_skips_bad(exists, files) ==
    IF ~exists
    THEN [raised |-> TRUE, error |-> "FileNotFoundError", file |-> "", cases |-> << >>]
    ELSE [raised |-> FALSE, error |-> "", file |-> "", cases |-> extend_loadable(files)]

\* AgentTestRunner.load_tests: the cases of every file, or the error raised
\* (FileNotFoundError, or the error of the first file that fails, which
\* names that file)
load_tests(exists, files) ==
    IF ~exists
    THEN [raised |-> TRUE, error |-> "FileNotFoundError", file |-> "", cases |-> << >>]
    ELSE IF \E i \in 1..Len(files) : load_yaml_file(files[i]).raised
    THEN LET first == CHOOSE i \in 1..Len(files) :
                        /\ load_yaml_file(files[i]).raised
                        /\ \A j \in 1..(i - 1) : ~load_yaml_file(files[j]).raised
         IN [raised |-> TRUE, error |-> load_yaml_file(files[first]).exc,
             file |-> files[first].path, cases |-> << >>]
    ELSE [raised |-> FALSE, error |-> "", file |-> "", cases |-> extend_all(files)]

----------------------------------------------------------------------------
(* core.py: AgentTestRunner.run_suite *)

\* _default_mock_config()
default_mock_config ==
    MockLLMConfig("mock-model",
        << MockLLMResponse("Mock response: task completed successfully.",
                           "mock-model", 12, 10, "stop") >>, 50, 0)

\* `config.mock_config or _default_mock_config()`
resolve_mock_config(r) == IF r.has_mock THEN r.mock_config ELSE default_mock_config

\* the wall-clock milliseconds a provider call can take
Elapsed == {0, 60}

\* a future of the thread pool
PendingUnit == [state |-> "pending", raised |-> FALSE, exc |-> "", result |-> NoResult]

\* the provider of sequential mode; unit i of parallel mode owns provider i
SeqProvider == 0

\* `passed = sum(1 for r in results if r.passed)`
count_passed(rs) == Cardinality({ i \in 1..Len(rs) : rs[i].passed })

RECURSIVE failed_entries(_)
failed_entries(rs) ==
    IF rs = << >> THEN 0
    ELSE Len(Head(rs).assertions_failed) + failed_entries(Tail(rs))

\* failed counts the failed assertions instead of the failed results
aggregate_counts_entries(rs) ==
    TestSuiteResult(rs, Len(rs), count_passed(rs), failed_entries(rs))

\* the TestSuiteResult run_suite builds from the results
aggregate(rs) ==
    TestSuiteResult(rs, Len(rs), count_passed(rs), Len(rs) - count_passed(rs))

\* run_suite up to the choice of the mode: load_tests, the provider
\* configuration, and in sequential mode the one provider; in parallel mode
\* one future per case is submitted
Load ==
    /\ run.pc = "start" /\ ~run.mock_error
    /\ LET l == load_tests(run.exists, run.files) IN
        IF l.raised
        THEN /\ run' = [run EXCEPT !.pc = "load_failed", !.error = l.error,
                                  !.file = l.file]
             /\ UNCHANGED <<config, prov, calls, served, cases, units>>
        ELSE /\ run' = [run EXCEPT !.pc = "run"]
             /\ cases' = l.cases
             /\ config' = resolve_mock_config(run)
             /\ IF run.parallel
                THEN /\ units' = [i \in 1..Len(l.cases) |-> PendingUnit]
                     /\ UNCHANGED <<prov, calls, served>>
                ELSE /\ prov' = (SeqProvider :> MockLLMProvider(resolve_mock_config(run)))
                     /\ calls' = (SeqProvider :> 0)
                     /\ served' = (SeqProvider :> 0)
                     /\ UNCHANGED units
    /\ UNCHANGED <<wasReset, last, seen, results, suite, input_record, checked>>

\* the effect of a run_test call on provider p, which unit p has just
\* constructed or which is the shared one, and on its histories
Called(p, r) ==
    LET before == IF p \in DOMAIN prov THEN prov[p] ELSE MockLLMProvider(config)
        made == IF p \in DOMAIN calls THEN calls[p] ELSE 0
        got == IF p \in DOMAIN served THEN served[p] ELSE 0
    IN  /\ prov' = (p :> r.st) @@ prov
        /\ calls' = (p :> made + 1) @@ calls
        /\ served' = (p :> IF r.st.index > before.index THEN got + 1 ELSE got)
                      @@ served

\* a provider is constructed for every case
SeqStep_fresh_provider ==
    /\ run.pc = "run" /\ ~run.parallel
    /\ Len(results) < Len(cases)
    /\ \E draw \in Draws(FALSE, 0), elapsed_ms \in Elapsed :
        LET r == run_test(cases[Len(results) + 1], config, MockLLMProvider(config),
                          draw, elapsed_ms)
        IN /\ prov' = (SeqProvider :> r.st)
           /\ calls' = (SeqProvider :> 1)
           /\ served' = (SeqProvider :> r.st.index)
           /\ IF r.raised
              THEN /\ run' = [run EXCEPT !.pc = "raised", !.error = r.exc]
                   /\ UNCHANGED results
              ELSE /\ results' = Append(results, r.result)
                   /\ UNCHANGED run
    /\ UNCHANGED <<config, wasReset, last, seen, cases, units, suite, input_record, checked>>

\* sequential mode: `self.run_test(tc, provider)` for the next case
SeqStep ==
    /\ run.pc = "run" /\ ~run.parallel
    /\ Len(results) < Len(cases)
    /\ \E draw \in Draws(FALSE, 0), elapsed_ms \in Elapsed :
        LET r == run_test(cases[Len(results) + 1], config, prov[SeqProvider],
                          draw, elapsed_ms)
        IN /\ Called(SeqProvider, r)
           /\ IF r.raised
              THEN /\ run' = [run EXCEPT !.pc = "raised", !.error = r.exc]
                   /\ UNCHANGED results
              ELSE /\ results' = Append(results, r.result)
                   /\ UNCHANGED run
    /\ UNCHANGED <<config, wasReset, last, seen, cases, units, suite, input_record, checked>>

\* the units call one provider, made by the first of them
UnitRun_shared_provider == \E i \in DOMAIN units :
    /\ run.pc \in {"run", "draining"} /\ run.parallel
    /\ units[i].state = "pending"
    /\ \E draw \in Draws(FALSE, 0), elapsed_ms \in Elapsed :
        LET shared == IF SeqProvider \in DOMAIN prov THEN prov[SeqProvider]
                      ELSE MockLLMProvider(config)
            r == run_test(cases[i], config, shared, draw, elapsed_ms)
        IN /\ Called(SeqProvider, r)
           /\ units' = [units EXCEPT ![i] = [state |-> "finished", raised |-> r.raised,
                                             exc |-> r.exc, result |-> r.result]]
    /\ UNCHANGED <<config, wasReset, last, seen, run, cases, results, suite, input_record, checked>>

\* the provider of unit i starts where a shared provider would stand after
\* the units before it
UnitRun_offset_cursor == \E i \in DOMAIN units :
    /\ run.pc \in {"run", "draining"} /\ run.parallel
    /\ units[i].state = "pending"
    /\ \E draw \in Draws(FALSE, 0), elapsed_ms \in Elapsed :
        LET r == run_test(cases[i], config,
                          [MockLLMProvider(config) EXCEPT !.index = i - 1],
                          draw, elapsed_ms)
        IN /\ Called(i, r)
           /\ units' = [units EXCEPT ![i] = [state |-> "finished", raised |-> r.raised,
                                             exc |-> r.exc, result |-> r.result]]
    /\ UNCHANGED <<config, wasReset, last, seen, run, cases, results, suite, input_record, checked>>

\* parallel mode: _run_one(tc) in a worker thread, with a provider of its
\* own. The workers go on taking the submitted units after as_completed or
\* future.result() has raised, until the executor is shut down
UnitRun == \E i \in DOMAIN units :
    /\ run.pc \in {"run", "draining"} /\ run.parallel
    /\ units[i].state = "pending"
    /\ \E draw \in Draws(FALSE, 0), elapsed_ms \in Elapsed :
        LET r == run_test(cases[i], config, MockLLMProvider(config), draw, elapsed_ms)
        IN /\ Called(i, r)
           /\ units' = [units EXCEPT ![i] = [state |-> "finished", raised |-> r.raised,
                                             exc |-> r.exc, result |-> r.result]]
    /\ UNCHANGED <<config, wasReset, last, seen, run, cases, results, suite, input_record, checked>>

\* parallel mode: as_completed starts, or its wait returns because futures
\* have finished: the finished futures not yet yielded are those it yields
\* next ("batched")
Wake ==
    /\ run.pc = "run" /\ run.parallel
    /\ \A i \in DOMAIN units : units[i].state # "batched"
    /\ \E i \in DOMAIN units : units[i].state = "finished"
    /\ units' = [i \in DOMAIN units |->
                   IF units[i].state = "finished"
                   THEN [units[i] EXCEPT !.state = "batched"] ELSE units[i]]
    /\ UNCHANGED <<provider_vars, run, cases, results, suite, input_record, checked>>

\* parallel mode: as_completed yields a finished future and
\* `results.append(future.result())` appends its result or re-raises; the
\* exception then has to pass the exit of the `with` block
Collect == \E i \in DOMAIN units :
    /\ run.pc = "run" /\ run.parallel
    /\ units[i].state = "batched"
    /\ units' = [units EXCEPT ![i].state = "yielded"]
    /\ IF units[i].raised
       THEN /\ run' = [run EXCEPT !.pc = "draining", !.error = units[i].exc]
            /\ UNCHANGED results
       ELSE /\ results' = Append(results, units[i].result)
            /\ UNCHANGED run
    /\ UNCHANGED <<provider_vars, cases, suite, input_record, checked>>

\* on the timeout the results collected so far are returned as the suite
Timeout_partial_suite ==
    /\ run.pc = "run" /\ run.parallel
    /\ \A i \in DOMAIN units : units[i].state # "batched"
    /\ \E i \in DOMAIN units : units[i].state \in {"pending", "finished"}
    /\ suite' = aggregate(results)
    /\ run' = [run EXCEPT !.pc = "done"]
    /\ UNCHANGED <<provider_vars, cases, units, results, input_record, checked>>

\* parallel mode: as_completed has yielded the futures it had taken, finds
\* that timeout_seconds have passed while futures are still to be yielded,
\* and raises TimeoutError, which has to pass the exit of the `with` block
Timeout ==
    /\ run.pc = "run" /\ run.parallel
    /\ \A i \in DOMAIN units : units[i].state # "batched"
    /\ \E i \in DOMAIN units : units[i].state \in {"pending", "finished"}
    /\ run' = [run EXCEPT !.pc = "draining", !.error = "TimeoutError"]
    /\ UNCHANGED <<provider_vars, cases, units, results, suite, input_record, checked>>

\* parallel mode, an exception leaving `with ThreadPoolExecutor() as
\* executor`: the exit of the block is shutdown(wait=True), which cancels
\* nothing and returns once every submitted unit has run; what the units
\* return or raise stays in their futures, and the exception leaves
\* run_suite
Shutdown ==
    /\ run.pc = "draining" /\ run.parallel
    /\ \A i \in DOMAIN units : units[i].state # "pending"
    /\ run' = [run EXCEPT !.pc = "raised"]
    /\ UNCHANGED <<provider_vars, cases, units, results, suite, input_record, checked>>

\* every case has its result: the counts are taken and the suite returned
Aggregate ==
    /\ run.pc = "run"
    /\ IF run.parallel
       THEN \A i \in DOMAIN units : units[i].state = "yielded"
       ELSE Len(results) = Len(cases)
    /\ suite' = aggregate(results)
    /\ run' = [run EXCEPT !.pc = "done"]
    /\ UNCHANGED <<provider_vars, cases, units, results, input_record, checked>>

\* cli.py, test_command: _load_mock_config raises click.ClickException, or
\* an exception that test_command turns into one
MockConfigError ==
    /\ run.pc = "start" /\ run.mock_error
    /\ run' = [run EXCEPT !.pc = "config_failed", !.error = "ClickException"]
    /\ UNCHANGED <<provider_vars, cases, units, results, suite, input_record, checked>>

\* the values of --output
OutputFormats == {"text", "json", "junit"}

\* the status tells whether no test passed
exit_status_none_passed(suite_result) ==
    IF suite_result.passed = 0 /\ suite_result.total > 0 THEN 1 ELSE 0

\* the end of test_command: `if suite_result.failed > 0: sys.exit(1)`, and
\* exit status 0 when the command returns
exit_status(suite_result) == IF suite_result.failed > 0 THEN 1 ELSE 0

\* click.ClickException.exit_code: the status of a command that raises it
ClickExceptionStatus == 1

\* cli.py, test_command once run_suite has returned: the reporter of the
\* chosen format writes the suite, and the process exits. (The format is read
\* here only, so it is chosen here.)
Report ==
    /\ run.pc = "done" /\ run.exit = NoRun.exit
    /\ \E output_format \in OutputFormats :
         run' = [run EXCEPT !.output_format = output_format,
                            !.exit = exit_status(suite)]
    /\ UNCHANGED <<provider_vars, cases, units, results, suite, input_record, checked>>

\* cli.py, test_command when _load_mock_config or run_suite raised: the
\* exception leaves as a click.ClickException
Abort ==
    /\ run.pc \in {"config_failed", "load_failed", "raised"}
    /\ run.exit = NoRun.exit
    /\ run' = [run EXCEPT !.exit = ClickExceptionStatus]
    /\ UNCHANGED <<provider_vars, cases, units, results, suite, input_record, checked>>

\* a call of the `test` command, which calls run_suite(test_dir, config):
\* the directory may not exist; --mock-config may be absent (the
\* AgentTestConfig then carries no mock_config) or name a file that cannot
\* be loaded
InitSuite ==
    /\ \E exists \in BOOLEAN, files \in FileLists, has_mock \in BOOLEAN,
          mock_config \in Configs \cup {NoConfig}, mock_error \in BOOLEAN,
          parallel \in BOOLEAN :
        /\ ~exists => files = << >>
        /\ has_mock <=> mock_config # NoConfig
        /\ mock_error => ~has_mock
        /\ run = [exists |-> exists, files |-> files, has_mock |-> has_mock,
                  mock_config |-> mock_config, mock_error |-> mock_error,
                  parallel |-> parallel,
                  pc |-> "start", error |-> "", file |-> "",
                  output_format |-> "", exit |-> NoRun.exit]
    /\ config = NoConfig
    /\ prov = << >>
    /\ calls = << >>
    /\ served = << >>
    /\ wasReset = << >>
    /\ last = NoLast
    /\ seen = [s \in Seeds |-> {}]
    /\ cases = << >>
    /\ units = << >>
    /\ results = << >>
    /\ suite = NoSuite
    /\ input_record = NoRecord
    /\ checked = NoCheck

NextSuite ==
    \/ MockConfigError \/ Load \/ SeqStep \/ UnitRun \/ Wake \/ Collect
    \/ Timeout \/ Shutdown \/ Aggregate \/ Report \/ Abort

SpecSuite == InitSuite /\ [][NextSuite]_vars

----------------------------------------------------------------------------
(* The provider on its own: one instance, called and reset in any order *)

\* the effect of provider p's complete() on the providers and their histories
Invoke(p, seeded, seed, r) ==
    /\ prov' = [prov EXCEPT ![p] = r.st]
    /\ calls' = [calls EXCEPT ![p] = @ + 1]
    /\ served' = [served EXCEPT
                    ![p] = IF ~r.raised /\ config.responses # << >>
                           THEN @ + 1 ELSE @]
    /\ seen' = IF seeded
               THEN [seen EXCEPT ![seed] = @ \cup {<<p, r.raised>>}]
               ELSE seen
    /\ UNCHANGED <<config, suite_vars>>

\* a call p.complete(messages, seed=seed), or p.complete(messages)
Complete(p, seeded, seed) ==
    /\ prov[p].call_count < MaxCalls
    /\ \E draw \in Draws(seeded, seed) :
         LET r == complete(config, prov[p], draw) IN
            /\ Invoke(p, seeded, seed, r)
            /\ last' = [op |-> "complete", p |-> p, seeded |-> seeded,
                        seed |-> seed, draw |-> draw, raised |-> r.raised,
                        error |-> r.error, response |-> r.response]
            /\ UNCHANGED wasReset

CompleteSeeded == \E p \in DOMAIN prov, seed \in Seeds : Complete(p, TRUE, seed)

CompleteUnseeded == \E p \in DOMAIN prov : Complete(p, FALSE, 0)

\* a call p.reset()
Reset == \E p \in DOMAIN prov :
    /\ prov' = [prov EXCEPT ![p] = reset(prov[p])]
    /\ calls' = [calls EXCEPT ![p] = 0]
    /\ served' = [served EXCEPT ![p] = 0]
    /\ wasReset' = [wasReset EXCEPT ![p] = TRUE]
    /\ last' = [NoLast EXCEPT !.op = "reset", !.p = p]
    /\ UNCHANGED <<config, seen, suite_vars>>

InitProviders(ids) ==
    /\ config \in Configs
    /\ prov = [p \in ids |-> MockLLMProvider(config)]
    /\ calls = [p \in ids |-> 0]
    /\ served = [p \in ids |-> 0]
    /\ wasReset = [p \in ids |-> FALSE]
    /\ last = NoLast
    /\ seen = [s \in Seeds |-> {}]
    /\ run = NoRun
    /\ cases = << >>
    /\ units = << >>
    /\ results = << >>
    /\ suite = NoSuite
    /\ input_record = NoRecord
    /\ checked = NoCheck

InitProvider == InitProviders({"a"})

NextProvider == CompleteSeeded \/ CompleteUnseeded \/ Reset

SpecProvider == InitProvider /\ [][NextProvider]_vars

----------------------------------------------------------------------------
(* Two independently constructed providers of one configuration, each      *)
(* called (with and without seeds) and reset in any order. Only the        *)
(* per-seed outcomes are recorded.                                         *)

PairComplete(p, seeded, seed) ==
    /\ prov[p].call_count < MaxCalls
    /\ \E draw \in Draws(seeded, seed) :
         Invoke(p, seeded, seed, complete(config, prov[p], draw))
    /\ UNCHANGED <<wasReset, last>>

PairCompleteSeeded ==
    \E p \in DOMAIN prov, seed \in Seeds : PairComplete(p, TRUE, seed)

PairCompleteUnseeded == \E p \in DOMAIN prov : PairComplete(p, FALSE, 0)

PairReset == \E p \in DOMAIN prov :
    /\ prov' = [prov EXCEPT ![p] = reset(prov[p])]
    /\ calls' = [calls EXCEPT ![p] = 0]
    /\ served' = [served EXCEPT ![p] = 0]
    /\ UNCHANGED <<config, wasReset, last, seen, suite_vars>>

InitPair == InitProviders({"a", "b"})

NextPair == PairCompleteSeeded \/ PairCompleteUnseeded \/ PairReset

SpecPair == InitPair /\ [][NextPair]_vars

----------------------------------------------------------------------------
(* One test case: AgentTestCase is constructed from a mapping, and run_test *)
(* runs it once on a provider                                               *)

\* the keys of the mappings: the allowed ones and one that is not
RecordKeys == allowed_keys \cup {"bogus"}

\* the value a key usually has in the mappings
UsualValue ==
    ("contains_text" :> PyStr("hello"))
    @@ ("calls_tools" :> PyList(<<"search", "lookup">>))
    @@ ("max_tokens" :> PyInt(100))
    @@ ("max_latency_ms" :> PyInt(50))
    @@ ("no_pii" :> PyBool(TRUE))
    @@ ("valid_json" :> PyBool(TRUE))
    @@ ("matches_schema" :> PyDict("integer"))
    @@ ("bogus" :> PyInt(1))

\* the other values a key takes
OtherValues ==
    ("contains_text" :> {PyStr("zzz")})
    @@ ("calls_tools" :> {PyStr("search"), PyList(<< >>), PyList(<<"lookup", "search">>)})
    @@ ("max_tokens" :> {PyStr("50"), PyStr("abc")})
    @@ ("max_latency_ms" :> {PyInt(0), PyNone})
    @@ ("no_pii" :> {PyBool(FALSE), PyInt(1), PyNone})
    @@ ("valid_json" :> {PyBool(FALSE), PyStr("true")})
    @@ ("matches_schema" :> {PyStr("integer"), PyDict("string")})
    @@ ("bogus" :> {})

\* a key with a value other than the usual one, or none
Deviations ==
    {<<"", PyNone>>} \cup UNION { {<<k, v>> : v \in OtherValues[k]} : k \in RecordKeys }

\* the expectation maps: every set of keys, at most one of them with a value
\* other than the usual one
Behaviors ==
    { [k \in ks |-> IF k = d[1] THEN d[2] ELSE UsualValue[k]] :
        ks \in SUBSET RecordKeys, d \in Deviations }

\* the mappings AgentTestCase is constructed from, with and without a name
CaseRecords ==
    { RawRecord(TRUE, has_name, IF has_name THEN "case" ELSE "", behavior) :
        has_name \in BOOLEAN, behavior \in Behaviors }

\* the states run_test finds the provider in: just constructed, or after one
\* call that returned or raised
StartStates(cfg) ==
    {MockLLMProvider(cfg)}
    \cup { complete(cfg, MockLLMProvider(cfg), draw).st : draw \in UnseededDraws }

\* AgentTestCase.model_validate(input_record)
Construct ==
    /\ run.pc = "record"
    /\ LET made == model_validate(input_record) IN
        IF made.raised
        THEN /\ run' = [run EXCEPT !.pc = "rejected", !.error = "ValidationError"]
             /\ UNCHANGED cases
        ELSE /\ run' = [run EXCEPT !.pc = "constructed"]
             /\ cases' = << made.case >>
    /\ UNCHANGED <<provider_vars, units, results, suite, input_record, checked>>

\* runner.run_test(test_case, provider), for a provider of any configuration
RunTest ==
    /\ run.pc = "constructed"
    /\ \E cfg \in Configs, elapsed_ms \in Elapsed :
       \E st \in StartStates(cfg), draw \in Draws(FALSE, 0) :
        LET r == run_test(cases[1], cfg, st, draw, elapsed_ms) IN
           /\ config' = cfg
           /\ prov' = (SeqProvider :> r.st)
           /\ calls' = (SeqProvider :> call_count(r.st))
           /\ served' = (SeqProvider :> r.st.index)
           /\ IF r.raised
              THEN /\ run' = [run EXCEPT !.pc = "raised", !.error = r.exc]
                   /\ UNCHANGED results
              ELSE /\ run' = [run EXCEPT !.pc = "returned"]
                   /\ results' = << r.result >>
    /\ UNCHANGED <<wasReset, last, seen, cases, units, suite, input_record, checked>>

InitCase ==
    /\ input_record \in CaseRecords
    /\ checked = NoCheck
    /\ run = [NoRun EXCEPT !.pc = "record"]
    /\ config = NoConfig
    /\ prov = << >>
    /\ calls = << >>
    /\ served = << >>
    /\ wasReset = << >>
    /\ last = NoLast
    /\ seen = [s \in Seeds |-> {}]
    /\ cases = << >>
    /\ units = << >>
    /\ results = << >>
    /\ suite = NoSuite

NextCase == Construct \/ RunTest

SpecCase == InitCase /\ [][NextCase]_vars

----------------------------------------------------------------------------
(* fixtures.py: load_test_suite on one target, a file or a directory *)

\* the elements the generated files are made of
RecordPool ==
    {rec_greets, rec_full, rec_skips, rec_empty, rec_tool, rec_bad_budget,
     rec_unknown_key, rec_no_name, not_a_mapping}

\* the lists of at most MaxRecords elements
ItemLists == UNION { [1..n -> RecordPool] : n \in 0..MaxRecords }

\* the definition files load_test_suite is pointed at: every shape, the lists
\* with every content
TargetFiles ==
    { YamlFile("suite.yaml", shape, FALSE, << >>) : shape \in {"invalid", "null", "scalar"} }
    \cup { YamlFile("suite.yaml", "list", FALSE, items) : items \in ItemLists }
    \cup { YamlFile("suite.yaml", "dict", TRUE, items) : items \in ItemLists }
    \cup { YamlFile("suite.yaml", "dict", FALSE, << r >>) : r \in RecordPool \ {not_a_mapping} }

\* load_test_suite(path): FileNotFoundError for a path that does not exist,
\* runner.load_tests for a directory, and for a file
\* `runner.load_yaml_file(target)`, an attribute AgentTestRunner does not
\* have (its loader of one file is _load_yaml_file): AttributeError
load_test_suite(exists, is_dir, files) ==
    IF ~exists
    THEN [raised |-> TRUE, error |-> "FileNotFoundError", file |-> "", cases |-> << >>]
    ELSE IF is_dir THEN load_tests(TRUE, files)
    ELSE [raised |-> TRUE, error |-> "AttributeError", file |-> "", cases |-> << >>]

\* a call load_test_suite(path)
LoadTestSuite ==
    /\ run.pc = "target"
    /\ LET l == load_test_suite(run.exists, run.is_dir, run.files) IN
        IF l.raised
        THEN /\ run' = [run EXCEPT !.pc = "load_failed", !.error = l.error,
                                  !.file = l.file]
             /\ UNCHANGED cases
        ELSE /\ run' = [run EXCEPT !.pc = "loaded"]
             /\ cases' = l.cases
    /\ UNCHANGED <<provider_vars, units, results, suite, input_record, checked>>

\* the path does not exist, or is a definition file, or is a directory that
\* holds one definition file
InitLoad ==
    /\ \E exists \in BOOLEAN, is_dir \in BOOLEAN, file \in TargetFiles :
        /\ ~exists => ~is_dir /\ file = YamlFile("suite.yaml", "null", FALSE, << >>)
        /\ run = [exists |-> exists, is_dir |-> is_dir,
                  files |-> IF exists THEN << file >> ELSE << >>,
                  pc |-> "target", error |-> "", file |-> ""]
    /\ config = NoConfig
    /\ prov = << >>
    /\ calls = << >>
    /\ served = << >>
    /\ wasReset = << >>
    /\ last = NoLast
    /\ seen = [s \in Seeds |-> {}]
    /\ cases = << >>
    /\ units = << >>
    /\ results = << >>
    /\ suite = NoSuite
    /\ input_record = NoRecord
    /\ checked = NoCheck

NextLoad == LoadTestSuite

SpecLoad == InitLoad /\ [][NextLoad]_vars

----------------------------------------------------------------------------
(* _lightweight_schema_check on generated data and schemas *)

\* the values without items: 1, "x", [1, "x"] and {}
LeafData == { Json(ty, NoFields) : ty \in {"int", "str", "list", "dict"} }

RECURSIVE DataUpTo(_)
\* the values with at most d levels of nested objects under the key "a"
DataUpTo(d) ==
    IF d = 0 THEN LeafData
    ELSE LeafData \cup { Json("dict", "a" :> v) : v \in DataUpTo(d - 1) }

\* the schemas without properties: no type, a known type, a type name that
\* is not known, an array with an item schema; with or without a required key
LeafSchemas ==
    { Schema(FALSE, "", required, NoFields, FALSE) : required \in {{}, {"a"}} }
    \cup { Schema(TRUE, type, required, NoFields, FALSE) :
              type \in {"integer", "string", "object", "frob"}, required \in {{}, {"a"}} }
    \cup { Schema(TRUE, "array", required, NoFields, TRUE) : required \in {{}, {"a"}} }

RECURSIVE SchemasUpTo(_)
\* the schemas with at most d levels of nested `properties` under the key "a"
SchemasUpTo(d) ==
    IF d = 0 THEN LeafSchemas
    ELSE LeafSchemas
         \cup { Schema(TRUE, "object", required, "a" :> child, FALSE) :
                   required \in {{}, {"a"}}, child \in SchemasUpTo(d - 1) }

\* a call _lightweight_schema_check(data, schema)
SchemaCheck ==
    /\ checked.pc = "call"
    /\ checked' = [checked EXCEPT !.pc = "returned",
                      !.verdict = lightweight_schema_check(checked.data, checked.schema)]
    /\ UNCHANGED <<provider_vars, run, cases, units, results, suite, input_record>>

InitSchema ==
    /\ \E data \in DataUpTo(MaxDepth), schema \in SchemasUpTo(MaxDepth) :
         checked = [pc |-> "call", data |-> data, schema |-> schema, verdict |-> FALSE]
    /\ run = NoRun
    /\ config = NoConfig
    /\ prov = << >>
    /\ calls = << >>
    /\ served = << >>
    /\ wasReset = << >>
    /\ last = NoLast
    /\ seen = [s \in Seeds |-> {}]
    /\ cases = << >>
    /\ units = << >>
    /\ results = << >>
    /\ suite = NoSuite
    /\ input_record = NoRecord

NextSchema == SchemaCheck

SpecSchema == InitSchema /\ [][NextSchema]_vars

----------------------------------------------------------------------------
(* Properties of the provider *)

\* the provider the last operation was applied to
LastP == last.p

Returned == last.op = "complete" /\ ~last.raised

\* C1: with failure_rate 0 and n > 0 configured responses, the k-th call to
\* complete since construction or the last reset returns the response at
\* position (k-1) mod n: the list wraps and is never exhausted.
C1_RoundRobin ==
    (last.op = "complete" /\ config.failure_rate = 0 /\ config.responses # << >>)
    => /\ ~last.raised
       /\ last.response =
            config.responses[((calls[LastP] - 1) % Len(config.responses)) + 1]

\* a call past the end of a two-response list: the third call serves the first
C1_Witness ==
    /\ last.op = "complete" /\ config.failure_rate = 0
    /\ Len(config.responses) = 2
    /\ config.responses[1] # config.responses[2]
    /\ calls[LastP] = 3
    /\ last.response = config.responses[1]

\* C2: call_count is the number of complete invocations since construction
\* or the last reset, the calls that raised and the calls that returned the
\* synthetic response included; between resets it never decreases.
C2_CallCount ==
    /\ [](\A p \in DOMAIN prov : call_count(prov[p]) = calls[p])
    /\ [][\A p \in DOMAIN prov :
            ~(last'.op = "reset" /\ last'.p = p)
            => call_count(prov'[p]) >= call_count(prov[p])]_vars

\* a second call that raised has been counted
C2_Witness ==
    /\ last.op = "complete" /\ last.raised
    /\ calls[LastP] = 2
    /\ call_count(prov[LastP]) = 2

\* C3: reset zeroes the call counter and the cursor, after successful and
\* failed calls alike: call_count is 0 right after it, and the next call
\* that does not fail returns the first configured response.
C3_Reset ==
    /\ last.op = "reset"
       => call_count(prov[LastP]) = 0 /\ prov[LastP].index = 0
    /\ (Returned /\ wasReset[LastP] /\ config.responses # << >>
        /\ served[LastP] = 1)
       => last.response = config.responses[1]

\* after a reset a call failed, and the call after it returned the first
\* of two responses
C3_Witness ==
    /\ Returned /\ wasReset[LastP]
    /\ Len(config.responses) = 2
    /\ served[LastP] = 1 /\ calls[LastP] = 2
    /\ last.response = config.responses[1]

\* C4: a call raises the simulated failure iff failure_rate > 0 and the draw
\* is below failure_rate; with failure_rate 1.0 every call raises, returns
\* no response and is still counted; with failure_rate 0 no call raises.
C4_FailureInjection ==
    last.op = "complete"
    => /\ last.raised <=> (config.failure_rate > 0 /\ last.draw < config.failure_rate)
       /\ config.failure_rate = RateOne
          => /\ last.raised /\ last.response = NoResponse
             /\ call_count(prov[LastP]) = calls[LastP]
             /\ last.error.call = calls[LastP]
       /\ config.failure_rate = 0 => ~last.raised

\* the second of two calls raised with failure_rate 1.0
C4_Witness ==
    /\ last.op = "complete" /\ last.raised
    /\ config.failure_rate = RateOne
    /\ call_count(prov[LastP]) = 2

\* C5: the outcome (returned or raised) of a seeded call depends on the
\* configuration and the seed alone: whichever provider is called, whatever
\* was called before on it or on the other one, the same seed gives the same
\* outcome. Two providers given the same seeds in the same order therefore
\* produce the same sequence of outcomes.
C5_SeededDeterminism ==
    \A s \in Seeds : \A x, y \in seen[s] : x[2] = y[2]

\* both providers saw the same two seeds, one raising and one returning,
\* after different numbers of earlier calls
C5_Witness ==
    /\ \A s \in {0, 1} : {x[1] : x \in seen[s]} = {"a", "b"}
    /\ \E x \in seen[0], y \in seen[1] : x[2] # y[2]
    /\ calls["a"] # calls["b"]

\* C6: with an empty response list every call that does not fail returns a
\* synthesised response: empty content, the configured model name, zero
\* tokens, the configured default latency and finish reason "stop".
C6_EmptySequence ==
    (Returned /\ config.responses = << >>)
    => /\ last.response.content = ""
       /\ last.response.model = config.model_name
       /\ last.response.tokens_used = 0
       /\ last.response.latency_ms = config.default_latency_ms
       /\ last.response.finish_reason = "stop"

\* the third successive call on an empty list, with a latency and a model
\* name of the configuration's own
C6_Witness ==
    /\ Returned /\ config.responses = << >>
    /\ calls[LastP] = 3
    /\ config.default_latency_ms > 0
    /\ last.response.latency_ms = config.default_latency_ms
    /\ config.model_name = "gpt-mock"

\* C25: a call to complete that raises the simulated failure changes the
\* call counter only: the cursor stays, so the next call that returns gives
\* the response the failed call would have given. In every state the cursor
\* is the number of calls served from a non-empty list since construction or
\* the last reset, and it is at most the call counter.
C25_FailureFrame ==
    /\ [](\A p \in DOMAIN prov :
            /\ prov[p].index = served[p]
            /\ prov[p].index <= call_count(prov[p]))
    /\ [][\A p \in DOMAIN prov :
            (last'.op = "complete" /\ last'.p = p)
            => /\ last'.raised
                  => /\ prov'[p].index = prov[p].index
                     /\ call_count(prov'[p]) = call_count(prov[p]) + 1
               /\ (~last'.raised /\ config.responses # << >>)
                  => last'.response =
                       config.responses[(served[p] % Len(config.responses)) + 1]]_vars

\* of three calls one raised: the third call returned the second of two
\* responses, not the first again
C25_Witness ==
    /\ Returned
    /\ Len(config.responses) = 2
    /\ config.responses[1] # config.responses[2]
    /\ calls[LastP] = 3 /\ served[LastP] = 2
    /\ prov[LastP].index = 2
    /\ last.response = config.responses[2]

----------------------------------------------------------------------------
(* Properties of the runner *)

\* the AgentTestResults run_test has returned so far: those appended to
\* results, and in parallel mode those held by a finished future
Produced ==
    { results[i] : i \in 1..Len(results) }
    \cup { units[i].result :
             i \in { j \in DOMAIN units :
                       units[j].state # "pending" /\ ~units[j].raised } }

ProviderFailed(r) == r.actual_output.error

\* C7: every result run_test produces has passed = TRUE exactly when its
\* list of failed assertions is empty, whatever the case and whether the
\* provider answered or raised.
C7_PassedIffNoFailure ==
    \A r \in Produced : r.passed <=> r.assertions_failed = << >>

\* one result of a provider failure, one that passed on evaluated
\* expectations and one that failed on them
C7_Witness ==
    /\ \E r \in Produced : ProviderFailed(r) /\ ~r.passed
    /\ \E r \in Produced :
         ~ProviderFailed(r) /\ r.passed /\ r.assertions_passed # << >>
    /\ \E r \in Produced :
         ~ProviderFailed(r) /\ ~r.passed /\ Len(r.assertions_failed) >= 2

\* C8: every suite run_suite returns, in either mode, has
\* passed + failed = total = length(results), passed being the number of
\* results whose passed flag is set; with no cases the three counts are 0.
C8_SuiteCounts ==
    run.pc = "done"
    => /\ suite.passed + suite.failed = suite.total
       /\ suite.total = Len(suite.results)
       /\ suite.passed =
            Cardinality({ i \in 1..Len(suite.results) : suite.results[i].passed })
       /\ cases = << >> => suite.total = 0 /\ suite.passed = 0 /\ suite.failed = 0

\* a parallel run returned a suite with passed and failed results, one of
\* them with several failed assertions
C8_Witness ==
    /\ run.pc = "done" /\ run.parallel
    /\ suite.passed >= 1 /\ suite.failed >= 1
    /\ \E i \in 1..Len(suite.results) : Len(suite.results[i].assertions_failed) >= 2

\* C9: when the provider raises during run_test the result is failed, with
\* the provider_error entry as its only failed assertion, no passed
\* assertion, tokens_used 0 and the "ERROR: ..." marker as output; no
\* expectation of the case is evaluated, whatever its map holds.
C9_ProviderError ==
    /\ \A r \in Produced :
         ProviderFailed(r)
         => /\ ~r.passed
            /\ Len(r.assertions_failed) = 1
            /\ r.assertions_failed[1].label = "provider_error"
            /\ r.assertions_failed[1].n = config.failure_rate
            /\ r.assertions_passed = << >>
            /\ r.tokens_used = 0
    \* every call that raised left such a result: with a non-empty response
    \* list the calls that raised are those that did not move the cursor
    /\ (SeqProvider \in DOMAIN prov /\ config.responses # << >>
        /\ run.pc \in {"run", "done"})
       => Cardinality({ i \in 1..Len(results) : ProviderFailed(results[i]) })
            = call_count(prov[SeqProvider]) - prov[SeqProvider].index
    \* with failure_rate 1.0 every call raises: no expectation is evaluated,
    \* so no conversion of an expectation's value can raise
    /\ config.failure_rate = RateOne
       => /\ \A r \in Produced : ProviderFailed(r)
          /\ run.pc \in {"draining", "raised"} => run.error = "TimeoutError"

\* the provider raised for the case whose max_tokens is not a number
C9_Witness ==
    \E r \in Produced :
        /\ ProviderFailed(r)
        /\ r.test_case_name = "bad_budget"
        /\ r.actual_output.call = 3

\* C10: a provider failure fails the result of its own case only and never
\* aborts the run, in either mode; the suite of a completed run holds one
\* result for every loaded case, the cases run after the failing one included.
C10_Containment ==
    /\ run.pc \in {"draining", "raised"} => run.error # "RuntimeError"
    /\ \A r \in Produced :
         ProviderFailed(r)
         <=> \E i \in 1..Len(r.assertions_failed) :
                r.assertions_failed[i].label = "provider_error"
    /\ run.pc = "done"
       => /\ suite.total = Len(cases)
          /\ \A i \in 1..Len(cases) :
                Cardinality({ j \in 1..Len(suite.results) :
                    suite.results[j].test_case_name = cases[i].name }) = 1
          /\ ~run.parallel
             => \A i \in 1..Len(cases) :
                   suite.results[i].test_case_name = cases[i].name

\* a sequential run completed although the provider raised for its first
\* case: the two cases after it have results, one of them passed
C10_Witness ==
    /\ run.pc = "done" /\ ~run.parallel
    /\ Len(cases) = 3
    /\ ProviderFailed(suite.results[1])
    /\ ~ProviderFailed(suite.results[2])
    /\ \E i \in 2..3 : suite.results[i].passed

----------------------------------------------------------------------------
(* Properties of run_test on one case *)

\* the result run_test returned for the case constructed from input_record
TheResult == results[1]

Evaluated == run.pc = "returned" /\ ~ProviderFailed(TheResult)

\* the labels of the entries, in the order of the blocks of _evaluate_assertions
EvaluationOrder ==
    <<"contains_text", "calls_tool", "max_tokens", "max_latency_ms",
      "no_pii", "valid_json", "matches_schema">>

Rank(label) == CHOOSE i \in 1..Len(EvaluationOrder) : EvaluationOrder[i] = label

Position(names, name) == CHOOSE i \in 1..Len(names) : names[i] = name

\* the entries follow EvaluationOrder, the calls_tool entries among them
\* the order of the tool names
InOrder(entries, names) ==
    \A i, j \in 1..Len(entries) :
        i < j
        => /\ Rank(entries[i].label) <= Rank(entries[j].label)
           /\ (entries[i].label = "calls_tool" /\ entries[j].label = "calls_tool")
              => Position(names, entries[i].arg) < Position(names, entries[j].arg)

\* the tool names the case asks for
AskedTools ==
    IF "calls_tools" \in DOMAIN input_record.expected_behavior
    THEN LET v == input_record.expected_behavior["calls_tools"] IN
         IF v.ty = "list" THEN v.l ELSE << v.s >>
    ELSE << >>

Labels(entries) == { entries[i].label : i \in 1..Len(entries) }

\* C11: on a successful provider call the expectations are evaluated in the
\* order contains_text, calls_tools (one check per tool name, in list order),
\* max_tokens, max_latency_ms, no_pii, valid_json, matches_schema: the passed
\* list and the failed list each follow that order, and every tool name has
\* its entry. (An expectation map is a function of its keys: it has no key
\* order for the evaluation to depend on.)
C11_FixedOrder ==
    Evaluated
    => /\ InOrder(TheResult.assertions_passed, AskedTools)
       /\ InOrder(TheResult.assertions_failed, AskedTools)
       /\ \A i \in 1..Len(AskedTools) :
            \E e \in { TheResult.assertions_passed[k] :
                         k \in 1..Len(TheResult.assertions_passed) }
                     \cup { TheResult.assertions_failed[k] :
                         k \in 1..Len(TheResult.assertions_failed) } :
                e.label = "calls_tool" /\ e.arg = AskedTools[i]

\* all seven expectations on the output "Hello, world!": three of the four
\* entries that passed and the four that failed are of different kinds, and
\* the two tool names failed in the order of the list, "lookup" first
C11_Witness ==
    /\ Evaluated
    /\ DOMAIN input_record.expected_behavior = allowed_keys
    /\ AskedTools = <<"lookup", "search">>
    /\ TheResult.actual_output.text = "Hello, world!"
    /\ [i \in 1..4 |-> TheResult.assertions_passed[i].label]
         = <<"contains_text", "max_tokens", "max_latency_ms", "no_pii">>
    /\ [i \in 1..4 |-> TheResult.assertions_failed[i].label]
         = <<"calls_tool", "calls_tool", "valid_json", "matches_schema">>
    /\ TheResult.assertions_failed[1].arg = "lookup"
    /\ Len(TheResult.assertions_passed) = 4 /\ Len(TheResult.assertions_failed) = 4

EmptyMap == input_record.expected_behavior = NoBehavior

\* C12, as stated: a case whose expectation map is empty always yields an
\* overall pass with an empty failed list, for every provider configuration
\* and provider state.
C12_AsStated ==
    (run.pc = "returned" /\ EmptyMap)
    => TheResult.passed /\ TheResult.assertions_failed = << >>

\* C12, amended: a case whose expectation map is empty never raises, and it
\* yields an overall pass with empty passed and failed lists whenever the
\* provider call returns, whatever the response; when the provider raises
\* the simulated failure the result is failed on provider_error alone.
C12_EmptyMapPasses ==
    EmptyMap
    => /\ run.pc # "raised"
       /\ Evaluated
          => /\ TheResult.passed
             /\ TheResult.assertions_failed = << >>
             /\ TheResult.assertions_passed = << >>
       /\ (run.pc = "returned" /\ ProviderFailed(TheResult))
          => /\ ~TheResult.passed
             /\ Labels(TheResult.assertions_failed) = {"provider_error"}

\* the empty map passed on an output that holds an e-mail address and is
\* not JSON, served by a provider that had been called before
C12_Witness ==
    /\ EmptyMap /\ Evaluated
    /\ TheResult.passed
    /\ TheResult.actual_output.text = "mail bob@example.com"
    /\ call_count(prov[SeqProvider]) = 2

IsExactlyTrue(key) ==
    /\ key \in DOMAIN input_record.expected_behavior
    /\ input_record.expected_behavior[key] = PyBool(TRUE)

HasEntry(r, label) ==
    label \in Labels(r.assertions_passed) \cup Labels(r.assertions_failed)

\* C13: no_pii and valid_json are evaluated only when their value is exactly
\* true: the result has a no_pii (valid_json) entry iff the value is the
\* boolean true; with any other value no entry is added, and a case with no
\* other expectation passes whatever the output.
C13_TrueOnly ==
    Evaluated
    => /\ HasEntry(TheResult, "no_pii") <=> IsExactlyTrue("no_pii")
       /\ HasEntry(TheResult, "valid_json") <=> IsExactlyTrue("valid_json")
       /\ (DOMAIN input_record.expected_behavior \subseteq {"no_pii", "valid_json"}
           /\ ~IsExactlyTrue("no_pii") /\ ~IsExactlyTrue("valid_json"))
          => TheResult.passed /\ TheResult.assertions_passed = << >>

\* no_pii: 1 on an output that holds an e-mail address: no entry, and the
\* case passed
C13_Witness ==
    /\ Evaluated
    /\ DOMAIN input_record.expected_behavior = {"no_pii"}
    /\ input_record.expected_behavior["no_pii"] = PyInt(1)
    /\ TheResult.actual_output.text = "mail bob@example.com"
    /\ TheResult.passed
    /\ ~HasEntry(TheResult, "no_pii")

\* C19: constructing a test case with a name succeeds iff every key of its
\* expectation map is one of contains_text, calls_tools, max_tokens,
\* max_latency_ms, no_pii, valid_json, matches_schema; every case run_test
\* is given carries only these keys.
C19_ClosedKeys ==
    /\ (run.pc # "record" /\ input_record.has_name)
       => (run.pc # "rejected"
           <=> DOMAIN input_record.expected_behavior \subseteq
                 {"contains_text", "calls_tools", "max_tokens", "max_latency_ms",
                  "no_pii", "valid_json", "matches_schema"})
    /\ run.pc \in {"constructed", "returned", "raised"}
       => /\ cases[1].expected_behavior = input_record.expected_behavior
          /\ DOMAIN cases[1].expected_behavior \subseteq
               {"contains_text", "calls_tools", "max_tokens", "max_latency_ms",
                "no_pii", "valid_json", "matches_schema"}

\* a named mapping with two allowed keys and one that is not was rejected
C19_Witness ==
    /\ run.pc = "rejected" /\ input_record.has_name
    /\ DOMAIN input_record.expected_behavior = {"contains_text", "no_pii", "bogus"}
    /\ cases = << >>

\* C23: for every validly constructed test case, whatever the values under
\* its allowed keys (a max_tokens or max_latency_ms that is not a number
\* included), and every provider, run_test returns a result and does not
\* raise.
C23_OutcomesAreData ==
    run.pc \in {"returned", "raised"}
    => run.pc = "returned" /\ Len(results) = 1

\* the names the calls_tool entries of a list carry, in order
ToolArgs(entries) ==
    LET IsTool(e) == e.label = "calls_tool"
        kept == SelectSeq(entries, IsTool)
    IN [i \in 1..Len(kept) |-> kept[i].arg]

\* the names among `names` that satisfy / do not satisfy the predicate
Detected(names, output, wanted) ==
    LET Keep(name) == assert_calls_tool(output, name) = wanted
    IN SelectSeq(names, Keep)

\* C27: calls_tools contributes exactly one entry per tool name: a string
\* gives one entry, a list of k names k entries in list order (the names
\* detected in the passed list, the others in the failed list), the case
\* fails if one name is not detected, and an empty list gives no entry, so a
\* case with no other expectation passes.
C27_OneEntryPerTool ==
    Evaluated
    => LET out == TheResult.actual_output.text IN
       /\ ToolArgs(TheResult.assertions_passed) = Detected(AskedTools, out, TRUE)
       /\ ToolArgs(TheResult.assertions_failed) = Detected(AskedTools, out, FALSE)
       /\ Detected(AskedTools, out, FALSE) # << >> => ~TheResult.passed
       /\ (DOMAIN input_record.expected_behavior = {"calls_tools"}
           /\ AskedTools = << >>)
          => /\ TheResult.passed
             /\ TheResult.assertions_passed = << >>
             /\ TheResult.assertions_failed = << >>

\* the list <<"search", "lookup">> on the output "search(q)": one entry
\* passed, one failed, and the case failed
C27_Witness ==
    /\ Evaluated
    /\ DOMAIN input_record.expected_behavior = {"calls_tools"}
    /\ AskedTools = <<"search", "lookup">>
    /\ TheResult.actual_output.text = "search(q)"
    /\ ToolArgs(TheResult.assertions_passed) = <<"search">>
    /\ ToolArgs(TheResult.assertions_failed) = <<"lookup">>
    /\ ~TheResult.passed

\* the number of entries with the label
EntryCount(r, label) ==
    Cardinality({ i \in 1..Len(r.assertions_passed) : r.assertions_passed[i].label = label })
    + Cardinality({ i \in 1..Len(r.assertions_failed) : r.assertions_failed[i].label = label })

SchemaIsMapping ==
    /\ "matches_schema" \in DOMAIN input_record.expected_behavior
    /\ input_record.expected_behavior["matches_schema"].ty = "dict"

\* C28: a matches_schema value that is not a mapping is skipped: no entry
\* is added, and a case with no other expectation passes for every output;
\* a mapping value gives exactly one matches_schema entry.
C28_SchemaNotMapping ==
    Evaluated
    => /\ EntryCount(TheResult, "matches_schema") = (IF SchemaIsMapping THEN 1 ELSE 0)
       /\ (DOMAIN input_record.expected_behavior = {"matches_schema"}
           /\ ~SchemaIsMapping)
          => /\ TheResult.passed
             /\ TheResult.assertions_passed = << >>
             /\ TheResult.assertions_failed = << >>

\* matches_schema: "integer", a string, on an output that is not JSON: no
\* entry, and the case passed
C28_Witness ==
    /\ Evaluated
    /\ DOMAIN input_record.expected_behavior = {"matches_schema"}
    /\ input_record.expected_behavior["matches_schema"] = PyStr("integer")
    /\ TheResult.actual_output.text = "Hello, world!"
    /\ TheResult.passed
    /\ EntryCount(TheResult, "matches_schema") = 0

----------------------------------------------------------------------------
(* Properties of run_suite and of the `test` command *)

ParallelRun == run.parallel /\ run.pc \in {"run", "draining", "raised", "done"}

\* C14: in parallel mode every unit constructs its own provider: no provider
\* is called by more than one unit (its call counter never exceeds 1), the
\* providers are those of the units that have run, and a unit's call leaves
\* the counter and the cursor of every other unit's provider as they were.
C14_ParallelIsolation ==
    /\ [](ParallelRun
          => /\ DOMAIN prov = { i \in DOMAIN units : units[i].state # "pending" }
             /\ \A p \in DOMAIN prov :
                  /\ call_count(prov[p]) = 1 /\ calls[p] = 1
                  /\ prov[p].index <= 1)
    /\ [][ParallelRun => \A p \in DOMAIN prov : prov'[p] = prov[p]]_vars

\* three units have run, each on a provider of its own; one provider raised
\* and the two others served the first of two responses
C14_Witness ==
    /\ ParallelRun /\ Len(cases) = 3
    /\ DOMAIN prov = {1, 2, 3}
    /\ Len(config.responses) = 2
    /\ \E p \in DOMAIN prov : prov[p].index = 0
    /\ Cardinality({ p \in DOMAIN prov : prov[p].index = 1 }) = 2
    /\ \A p \in DOMAIN prov : call_count(prov[p]) = 1

Unyielded == { i \in DOMAIN units : units[i].state # "yielded" }

KnownLabels ==
    {"contains_text", "calls_tool", "max_tokens", "max_latency_ms", "no_pii",
     "valid_json", "matches_schema", "provider_error"}

\* C15: in parallel mode, when the timeout is found to have passed with
\* units still to be collected, run_suite raises TimeoutError, an exception
\* and not a failed result, and returns no suite: a suite is returned only
\* once every unit has been collected, it then holds a result for every
\* case, and the results never hold an entry for a unit that was not
\* collected nor a failure that stands for the timeout. The error leaves
\* run_suite once the units still submitted have run; what they return is
\* not collected.
C15_RunTimeout ==
    /\ [](run.parallel
          => /\ run.error = "TimeoutError"
                => /\ run.pc \in {"draining", "raised"} /\ suite = NoSuite
                   /\ Unyielded # {}
             /\ run.pc \in {"draining", "raised"} => suite = NoSuite
             /\ run.pc = "raised"
                => \A i \in DOMAIN units : units[i].state # "pending"
             /\ run.pc = "done"
                => Unyielded = {} /\ suite.total = Len(cases)
                   /\ suite.results = results
             /\ Len(results) =
                  Cardinality({ i \in DOMAIN units :
                                  units[i].state = "yielded" /\ ~units[i].raised })
             /\ \A k \in 1..Len(results) :
                  Labels(results[k].assertions_failed) \subseteq KnownLabels)
    /\ [][(run.parallel /\ run'.error = "TimeoutError" /\ run.error # "TimeoutError")
          => /\ run.pc = "run" /\ Unyielded # {}
             /\ results' = results /\ suite' = NoSuite]_vars
    /\ [][(run.parallel /\ run.pc = "draining")
          => results' = results /\ suite' = NoSuite]_vars

\* the timeout passed after one of three units had been collected, its
\* result failed; the two other units ran before the error left run_suite,
\* one of them passed, and their results were dropped
C15_Witness ==
    /\ run.parallel /\ run.pc = "raised" /\ run.error = "TimeoutError"
    /\ Len(cases) = 3 /\ Len(results) = 1
    /\ ~results[1].passed
    /\ Cardinality({ i \in DOMAIN units : units[i].state = "finished" }) = 2
    /\ \E i \in DOMAIN units : units[i].state = "finished" /\ units[i].result.passed
    /\ DOMAIN prov = {1, 2, 3}
    /\ suite = NoSuite

SequentialRun == ~run.parallel /\ run.pc \in {"run", "raised", "done"}

\* C16: in sequential mode the cases run one at a time, in the order they
\* were loaded, on one shared provider which is called once per case:
\* results[i] is the result of the i-th case; with failure_rate 0 and n > 0
\* responses the i-th case (from 0) is evaluated on the response at position
\* i mod n; when the suite is returned the provider's call counter equals
\* the number of cases.
C16_Sequential ==
    SequentialRun
    => /\ DOMAIN prov = {SeqProvider}
       /\ Len(results) <= Len(cases)
       /\ call_count(prov[SeqProvider])
            = Len(results) + (IF run.pc = "raised" THEN 1 ELSE 0)
       /\ calls[SeqProvider] = call_count(prov[SeqProvider])
       /\ \A i \in 1..Len(results) : results[i].test_case_name = cases[i].name
       /\ (config.failure_rate = 0 /\ config.responses # << >>)
          => \A i \in 1..Len(results) :
                LET response == config.responses[((i - 1) % Len(config.responses)) + 1]
                IN /\ results[i].actual_output = ContentOutput(response.content)
                   /\ results[i].tokens_used = response.tokens_used
       /\ run.pc = "done"
          => /\ call_count(prov[SeqProvider]) = Len(cases)
             /\ suite.results = results /\ Len(results) = Len(cases)

\* three cases on two responses: the third case was evaluated on the first
\* response again, and the provider was called three times
C16_Witness ==
    /\ ~run.parallel /\ run.pc = "done"
    /\ Len(cases) = 3 /\ Len(config.responses) = 2
    /\ config.failure_rate = 0
    /\ config.responses[1] # config.responses[2]
    /\ results[2].actual_output.text = config.responses[2].content
    /\ results[3].actual_output.text = config.responses[1].content
    /\ call_count(prov[SeqProvider]) = 3

Loaded == run.pc \notin {"start", "config_failed"} /\ run.exists

\* the number of mappings among the elements of a file
Mappings(file) == Cardinality({ i \in 1..Len(file.items) : file.items[i].isdict })

\* the names of the mappings of a file, in order
MappingNames(file) ==
    LET IsMapping(r) == r.isdict
        kept == SelectSeq(file.items, IsMapping)
    IN [i \in 1..Len(kept) |-> kept[i].name]

\* every record of the file is a named mapping with allowed keys only
WellFormed(file) ==
    \A i \in 1..Len(file.items) :
        file.items[i].isdict
        => /\ file.items[i].has_name
           /\ DOMAIN file.items[i].expected_behavior \subseteq allowed_keys

\* C17: of a directory that holds one definition file: a mapping yields one
\* case, a list one case per record, a mapping with a `tests` list one case
\* per record of that list, and empty or null content no case and no error;
\* any other top-level shape is a load failure (ValueError) that names the
\* file.
C17_LoaderShapes ==
    (Loaded /\ Len(run.files) = 1)
    => LET file == run.files[1] IN
       /\ (file.shape = "dict" /\ ~file.tests_list /\ WellFormed(file))
          => /\ run.pc # "load_failed" /\ Len(cases) = 1
             /\ cases[1].name = file.items[1].name
       /\ (file.shape = "list" /\ WellFormed(file))
          => /\ run.pc # "load_failed" /\ Len(cases) = Mappings(file)
             /\ [i \in 1..Len(cases) |-> cases[i].name] = MappingNames(file)
       /\ (file.shape = "dict" /\ file.tests_list /\ WellFormed(file))
          => /\ run.pc # "load_failed" /\ Len(cases) = Mappings(file)
             /\ [i \in 1..Len(cases) |-> cases[i].name] = MappingNames(file)
       /\ file.shape = "null"
          => run.pc # "load_failed" /\ cases = << >>
       /\ file.shape = "scalar"
          => /\ run.pc = "load_failed" /\ run.error = "ValueError"
             /\ run.file = file.path /\ cases = << >>

\* the two cases of the list under the `tests` key of d_tests.yml
C17_Witness ==
    /\ Loaded /\ Len(run.files) = 1
    /\ run.files[1].shape = "dict" /\ run.files[1].tests_list
    /\ [i \in 1..Len(cases) |-> cases[i].name] = <<"empty", "tool">>

\* the file loads on its own
LoadsAlone(file) ==
    /\ file.shape \in {"null", "list", "dict"}
    /\ WellFormed(file)

RECURSIVE CasesOf(_)
\* the number of cases of the files
CasesOf(files) ==
    IF files = << >> THEN 0
    ELSE (IF Head(files).shape = "null" THEN 0
          ELSE IF Head(files).shape = "dict" /\ ~Head(files).tests_list THEN 1
          ELSE Mappings(Head(files)))
         + CasesOf(Tail(files))

\* C18: load_tests returns the cases of every file or raises: a location that
\* does not exist raises FileNotFoundError; a file that is not YAML, has a
\* shape that is not accepted or holds a record that fails validation raises
\* an error of another kind that names the first such file; in both cases
\* no case of the other files is returned and run_suite returns no suite.
C18_AllOrNothing ==
    (run.pc \notin {"start", "config_failed", "none", "record"})
    => /\ run.pc = "load_failed"
          <=> (~run.exists \/ \E i \in 1..Len(run.files) : ~LoadsAlone(run.files[i]))
       /\ run.pc = "load_failed"
          => /\ cases = << >> /\ results = << >> /\ suite = NoSuite
             /\ ~run.exists <=> run.error = "FileNotFoundError"
             /\ run.exists
                => /\ run.error \in {"ValueError", "YAMLError"}
                   /\ \E i \in 1..Len(run.files) :
                        /\ run.file = run.files[i].path
                        /\ ~LoadsAlone(run.files[i])
                        /\ \A j \in 1..(i - 1) : LoadsAlone(run.files[j])
       /\ run.pc # "load_failed"
          => Len(cases) = CasesOf(run.files)

\* the second of two files holds a record with a key that is not allowed:
\* the load failed naming it, and the case of the first file is not returned
C18_Witness ==
    /\ run.pc = "load_failed" /\ run.error = "ValueError"
    /\ Len(run.files) = 2
    /\ LoadsAlone(run.files[1]) /\ CasesOf(<< run.files[1] >>) = 1
    /\ run.file = run.files[2].path
    /\ run.files[2].shape = "list"
    /\ cases = << >> /\ suite = NoSuite

Exited == run.exit # NoRun.exit

\* C20: when run_suite has returned, the `test` command exits with status 1
\* if the suite's failed count is greater than zero and with status 0 if it
\* is zero, whatever the output format and the execution mode.
C20_ExitStatus ==
    (Exited /\ run.pc = "done")
    => /\ run.output_format \in OutputFormats
       /\ suite.failed > 0 => run.exit = 1
       /\ suite.failed = 0 => run.exit = 0

\* a parallel run reported as JUnit: two cases passed, one failed, status 1
C20_Witness ==
    /\ Exited /\ run.pc = "done"
    /\ run.parallel /\ run.output_format = "junit"
    /\ suite.passed = 2 /\ suite.failed = 1
    /\ run.exit = 1

\* C21: the `test` command exits with a non-zero status for a load or
\* configuration error (missing directory, malformed file, bad mock
\* configuration, run timeout) that is never equal to the exit status of a
\* run whose tests failed.
C21_DistinctExitStatus ==
    (Exited /\ run.pc \in {"config_failed", "load_failed", "raised"})
    => /\ run.exit # 0
       /\ run.exit # exit_status(TestSuiteResult(<< >>, 1, 0, 1))

\* what case i returns on a provider whose cursor stands at `index`, when
\* the call takes elapsed_ms and the provider does not fail
OutcomeAt(i, index, elapsed_ms) ==
    LET r == run_test(cases[i], config,
                      [MockLLMProvider(config) EXCEPT !.index = index],
                      CHOOSE draw \in Draws(FALSE, 0) : TRUE, elapsed_ms)
    IN [raised |-> r.raised, exc |-> r.exc, result |-> r.result]

\* the outcome of unit i
UnitOutcome(i) ==
    [raised |-> units[i].raised, exc |-> units[i].exc, result |-> units[i].result]

\* the cases a sequential run of the loaded cases passes when no call takes
\* measurable time
SequentialPassed ==
    { i \in DOMAIN cases :
        ~OutcomeAt(i, i - 1, 0).raised /\ OutcomeAt(i, i - 1, 0).result.passed }

\* C26: in parallel mode with failure_rate 0 and n > 0 responses every case
\* is evaluated on the response at position 0, whatever its place among the
\* cases (sequential mode gives case i the response at position i mod n,
\* C16): the outcome of unit i is the one of case i on a fresh provider. It
\* is an outcome of case i in its sequential turn only if case i has the
\* same outcome on the two responses, and the suite counts the units that
\* passed.
C26_ParallelFirstResponse ==
    (ParallelRun /\ config.failure_rate = 0 /\ config.responses # << >>)
    => /\ \A i \in DOMAIN units :
            units[i].state # "pending"
            => /\ \E e \in Elapsed : UnitOutcome(i) = OutcomeAt(i, 0, e)
               /\ ~units[i].raised
                  => /\ units[i].result.actual_output
                          = ContentOutput(config.responses[1].content)
                     /\ units[i].result.tokens_used = config.responses[1].tokens_used
               /\ (\E e \in Elapsed : UnitOutcome(i) = OutcomeAt(i, i - 1, e))
                  => \E e, f \in Elapsed : OutcomeAt(i, 0, e) = OutcomeAt(i, i - 1, f)
       /\ run.pc = "done"
          => /\ suite.total = Len(cases)
             /\ suite.passed
                  = Cardinality({ i \in DOMAIN units : units[i].result.passed })
             /\ suite.failed = suite.total - suite.passed

\* the cases "empty" and "tool" on the responses "42" and "search(q)": in
\* parallel the case "tool" met "42" and failed, and one case passed, where
\* the sequential run passes both
C26_Witness ==
    /\ run.parallel /\ run.pc = "done"
    /\ config.failure_rate = 0 /\ Len(config.responses) = 2
    /\ config.responses[1] # config.responses[2]
    /\ Len(cases) = 2
    /\ units[2].result.actual_output = ContentOutput(config.responses[1].content)
    /\ ~units[2].result.passed
    /\ suite.passed = 1
    /\ Cardinality(SequentialPassed) = 2

\* C30: in sequential mode the timeout is never consulted: the run never
\* fails with TimeoutError, and it always returns a suite with one result
\* per loaded case.
C30_SequentialAlwaysReturns ==
    SequentialRun
    => /\ run.error # "TimeoutError"
       /\ run.pc # "raised"
       /\ run.pc = "done" => Len(suite.results) = Len(cases)

----------------------------------------------------------------------------
(* Properties of load_test_suite and of the loader on generated files *)

TargetFile == run.files[1]

\* C22: load_test_suite given the path of an existing definition file that
\* is well formed does not fail, and returns the cases the directory loader
\* produces for that file: one for a mapping, one per record for a list.
C22_SingleFile ==
    (run.pc # "target" /\ run.exists /\ ~run.is_dir /\ LoadsAlone(TargetFile))
    => /\ run.pc = "loaded"
       /\ cases = load_tests(TRUE, << TargetFile >>).cases
       /\ Len(cases) = CasesOf(<< TargetFile >>)

\* the file holds a list of records: at top level or under its `tests` key
HoldsList(file) == file.shape = "list" \/ (file.shape = "dict" /\ file.tests_list)

\* C29: the elements of a top-level list, or of the list under `tests`, that
\* are not mappings are dropped without a trace: when the mappings of the
\* list are valid records the load succeeds with one case per mapping, in
\* order, which can be fewer cases than the list has elements; a load failure
\* is always due to a mapping that fails validation.
C29_NonMappingsDropped ==
    (run.pc # "target" /\ run.exists /\ run.is_dir /\ HoldsList(TargetFile))
    => /\ WellFormed(TargetFile)
          => /\ run.pc = "loaded"
             /\ Len(cases) = Mappings(TargetFile)
             /\ [i \in 1..Len(cases) |-> cases[i].name] = MappingNames(TargetFile)
       /\ run.pc = "load_failed"
          => /\ run.error = "ValueError"
             /\ \E i \in 1..Len(TargetFile.items) :
                  /\ TargetFile.items[i].isdict
                  /\ model_validate(TargetFile.items[i]).raised

\* a list of two elements, one of them not a mapping, loaded as one case
C29_Witness ==
    /\ run.pc = "loaded" /\ run.is_dir
    /\ TargetFile.shape = "list"
    /\ Len(TargetFile.items) = 2
    /\ ~TargetFile.items[1].isdict
    /\ Len(cases) = 1 /\ cases[1].name = TargetFile.items[2].name

----------------------------------------------------------------------------
(* Properties of _lightweight_schema_check *)

\* the schema's type is known and the data is not of it
TypeMismatch(data, schema) ==
    /\ schema.has_type /\ schema.type \in DOMAIN type_map
    /\ data.ty # type_map[schema.type]

\* C24: the fallback schema check reports failure only on a top-level type
\* mismatch, a missing top-level required key or a type mismatch of a
\* first-level property; a mismatch or a missing required key further down
\* in nested `properties`, a type name that is not known and an array item
\* schema never make it fail.
C24_PermissiveBeyondOneLevel ==
    (checked.pc = "returned" /\ ~checked.verdict)
    => \/ TypeMismatch(checked.data, checked.schema)
       \/ /\ checked.data.ty = "dict"
          /\ \E key \in checked.schema.required : key \notin DOMAIN checked.data.fields
       \/ /\ checked.data.ty = "dict"
          /\ \E prop_name \in DOMAIN checked.schema.properties :
                /\ prop_name \in DOMAIN checked.data.fields
                /\ TypeMismatch(checked.data.fields[prop_name],
                                checked.schema.properties[prop_name])

====
